---- MODULE Spec2Model ----
(***************************************************************************)
(* A model of dymex: a dynamic mathematical expression engine.             *)
(*   tokenizer/lexer.rs : expression text -> TokenStream                   *)
(*   parser.rs          : TokenStream -> Branch (Pratt parser)             *)
(*   dynmath/eval.rs    : Branch -> Evaluator (flatten_tree), evaluate      *)
(*   dynmath/mod.rs, number.rs, vector.rs : the DynMath value operations   *)
(*                                                                         *)
(* A panic (unwrap on None/Err, a failed assert, an index out of range, an *)
(* explicit panic!) is an outcome of its own, tagged "Panic".              *)
(***************************************************************************)
EXTENDS Integers, Sequences, FiniteSets, TLC

VARIABLES
    m_lhs,       \* SpecMath: left operand (a DynMath value)
    m_rhs,       \* SpecMath: right operand (a DynMath value)
    m_op,        \* SpecMath: the operation last applied ("" before any)
    m_res,       \* SpecMath: the outcome of the operation last applied
    m_args,      \* SpecMath: the argument list of the variadic function last applied
    p_ast,      \* SpecParse: the AST object (its token stream and its tree)
    p_res,       \* SpecParse: what the last AST::parse_tokens call returned
    p_calls,     \* SpecParse: the number of parse_tokens calls made on the stream
    p_upd,       \* SpecParse: the update_tokens call made ("none" before any)
    e_ast,       \* SpecEval: the parsed AST the evaluator was built from
    e_ev,        \* SpecEval: the Evaluator (values, expressions, aliases)
    e_in,        \* SpecEval: the inputs of the last evaluate call
    e_res,       \* SpecEval: what the last evaluate call returned
    e_calls,     \* SpecEval: the number of evaluate calls made
    e_hist,      \* SpecEval: the inputs and the outcome of every evaluate call so far
    e_debug,     \* SpecEval: whether the build checks debug assertions
    n_expr,      \* SpecNew: the expression text (a sequence of chars)
    n_vars,      \* SpecNew: the declared input names
    n_lex,       \* SpecNew: what TokenStream::update returned inside new
    n_res,       \* SpecNew: what Evaluator::new returned
    l_expr,      \* SpecLex: the expression text (a sequence of chars)
    l_vars,      \* SpecLex: the declared input names
    l_ts,        \* SpecLex: the TokenStream
    l_res        \* SpecLex: what TokenStream::update returned

mathVars == <<m_lhs, m_rhs, m_op, m_res, m_args>>
parseVars == <<p_ast, p_res, p_calls, p_upd>>
evalVars == <<e_ast, e_ev, e_in, e_res, e_calls, e_hist, e_debug>>
newVars == <<n_expr, n_vars, n_lex, n_res>>
lexVars == <<l_expr, l_vars, l_ts, l_res>>
vars ==
    <<m_lhs, m_rhs, m_op, m_res, m_args, p_ast, p_res, p_calls, p_upd,
      e_ast, e_ev, e_in, e_res, e_calls, e_hist, e_debug,
      n_expr, n_vars, n_lex, n_res, l_expr, l_vars, l_ts, l_res>>

(***************************************************************************)
(* Float.  A Float is a term in postfix form: a sequence of cells.  A      *)
(* rational n/d (d > 0, lowest terms) is the one-cell term; d = 0 encodes  *)
(* the IEEE specials +inf (1/0), -inf (-1/0) and NaN (0/0).  Arithmetic on *)
(* rationals is exact (rounding and the sign of zero are abstracted);      *)
(* results that are not rational (sin, ln, a non-integer power, ...) stay  *)
(* terms, built from the operands and the name of the function.            *)
(***************************************************************************)
Abs(i) == IF i < 0 THEN -i ELSE i

Sign(i) == IF i < 0 THEN -1 ELSE IF i > 0 THEN 1 ELSE 0

RECURSIVE Gcd(_, _)
Gcd(a, b) == IF b = 0 THEN a ELSE Gcd(b, a % b)

Cell(k, n, d) == [k |-> k, n |-> n, d |-> d]

\* the rational n/d in normal form
Q(n, d) ==
    IF d = 0 THEN << Cell("q", Sign(n), 0) >>
    ELSE LET g == Gcd(Abs(n), Abs(d))
         IN  << Cell("q", Sign(d) * (n \div g), Abs(d) \div g) >>

F(i) == Q(i, 1)
INFINITY == Q(1, 0)
NEG_INFINITY == Q(-1, 0)
NAN == Q(0, 0)

IsLit(x) == Len(x) = 1 /\ x[1].k = "q"
IsNaN(x) == IsLit(x) /\ x[1].n = 0 /\ x[1].d = 0
IsInf(x) == IsLit(x) /\ x[1].n # 0 /\ x[1].d = 0

App1(f, x) == x \o << Cell(f, 0, 0) >>
App2(f, x, y) == x \o y \o << Cell(f, 0, 0) >>

FNeg(x) == IF IsLit(x) THEN Q(-x[1].n, x[1].d) ELSE App1("neg", x)

FAdd(x, y) ==
    IF IsLit(x) /\ IsLit(y)
    THEN IF IsInf(x) /\ IsInf(y)
         THEN (IF x[1].n = y[1].n THEN x ELSE NAN)
         ELSE Q(x[1].n * y[1].d + y[1].n * x[1].d, x[1].d * y[1].d)
    ELSE App2("+", x, y)

FSub(x, y) == IF IsLit(x) /\ IsLit(y) THEN FAdd(x, FNeg(y)) ELSE App2("-", x, y)

FMul(x, y) ==
    IF IsLit(x) /\ IsLit(y)
    THEN Q(x[1].n * y[1].n, x[1].d * y[1].d)
    ELSE App2("*", x, y)

FRecip(x) == Q(x[1].d, x[1].n)

FDiv(x, y) ==
    IF IsLit(x) /\ IsLit(y)
    THEN (IF IsNaN(y) THEN NAN ELSE FMul(x, FRecip(y)))
    ELSE App2("/", x, y)

RECURSIVE FPowNat(_, _)
FPowNat(x, e) == IF e = 0 THEN F(1) ELSE FMul(x, FPowNat(x, e - 1))

\* f64::powf, exact for an integer exponent
FPow(x, y) ==
    IF IsLit(x) /\ IsLit(y) /\ y[1].d = 1
    THEN (IF y[1].n >= 0 THEN FPowNat(x, y[1].n)
          ELSE FRecip(FPowNat(x, -y[1].n)))
    ELSE App2("powf", x, y)

\* x < y on rationals and infinities (false when either is NaN)
FLess(x, y) ==
    IF IsNaN(x) \/ IsNaN(y) THEN FALSE
    ELSE IF IsInf(x) /\ IsInf(y) THEN x[1].n < y[1].n
    ELSE x[1].n * y[1].d < y[1].n * x[1].d

\* f64::min, f64::max: a NaN operand yields the other operand
FMin(x, y) ==
    IF IsLit(x) /\ IsLit(y)
    THEN (IF IsNaN(x) THEN y ELSE IF IsNaN(y) THEN x
          ELSE IF FLess(y, x) THEN y ELSE x)
    ELSE App2("min", x, y)

FMax(x, y) ==
    IF IsLit(x) /\ IsLit(y)
    THEN (IF IsNaN(x) THEN y ELSE IF IsNaN(y) THEN x
          ELSE IF FLess(x, y) THEN y ELSE x)
    ELSE App2("max", x, y)

(***************************************************************************)
(* Values (dyn DynMath), results and errors.                               *)
(***************************************************************************)
NumberV(f) == [cat |-> "Number", num |-> f, arr |-> <<>>]
ArrayV(a) == [cat |-> "Array", num |-> <<>>, arr |-> a]
\* a type that implements DynMath with category Unqiue and the trait's defaults
UniqueV == [cat |-> "Unique", num |-> <<>>, arr |-> <<>>]
NoVal == [cat |-> "None", num |-> <<>>, arr |-> <<>>]

EvErr(kind, operation, a, b) ==
    [kind |-> kind, operation |-> operation, lhs |-> a, rhs |-> b]
NoErr == EvErr("", "", "", "")

Ok(v) == [tag |-> "Ok", val |-> v, err |-> NoErr]
Err(e) == [tag |-> "Err", val |-> NoVal, err |-> e]
Panic == [tag |-> "Panic", val |-> NoVal, err |-> NoErr]
NoRes == [tag |-> "None", val |-> NoVal, err |-> NoErr]

category(v) == v.cat

MAXDIM == 3

\* number.rs returns the empty shape, vector.rs [len, 0, 0]
shape(v) ==
    IF v.cat = "Array" THEN << Len(v.arr), 0, 0 >> ELSE << 0, 0, 0 >>

shape_matches(self, other) ==
    CASE category(self) = "Number" -> TRUE
      [] category(other) = "Number" -> TRUE
      [] category(self) = "Array" /\ category(other) = "Array" ->
            shape(self) = shape(other)
      [] OTHER -> FALSE

type_name(v) == category(v)

unimpl_binary(l, r, op) == Err(EvErr("InvalidBinaryOperation", op, l, r))

unimpl_unary(data, op) ==
    Err(EvErr("InvalidUnaryOperation", op, type_name(data), ""))

\* as_number: number.rs returns the float; every other type panics
as_number(v) == IF v.cat = "Number" THEN Ok(v) ELSE Panic

SeqMap(Op(_), s) == [i \in 1..Len(s) |-> Op(s[i])]

Min2(a, b) == IF a < b THEN a ELSE b

\* Iterator::zip: stops at the end of the shorter sequence
Zip(Op(_, _), s, t) == [i \in 1..Min2(Len(s), Len(t)) |-> Op(s[i], t[i])]

RECURSIVE FoldL(_, _, _)
FoldL(Op(_, _), acc, s) ==
    IF s = <<>> THEN acc ELSE FoldL(Op, Op(acc, s[1]), Tail(s))

\* Iterator::sum over floats
FSum(s) == FoldL(FAdd, F(0), s)

(***************************************************************************)
(* The DynMath trait (dynmath/mod.rs) with its two implementations,        *)
(* Float (dynmath/number.rs) and Vec<Float> (dynmath/vector.rs).  A method *)
(* call on a dyn DynMath dispatches on the receiver's type.                *)
(***************************************************************************)
RECURSIVE add(_, _), sub(_, _), mul(_, _), div(_, _), pow(_, _)
RECURSIVE sub_inv(_, _), div_inv(_, _), pow_inv(_, _)

\* Vec::iterate returns the elements; the trait's default panics
iterate(v) == IF v.cat = "Array" THEN Ok(v) ELSE Panic

Default_add(self, other) == unimpl_binary(type_name(self), type_name(other), "+")
Default_sub(self, other) == unimpl_binary(type_name(self), type_name(other), "-")
Default_mul(self, other) == unimpl_binary(type_name(self), type_name(other), "*")
Default_div(self, other) == unimpl_binary(type_name(self), type_name(other), "/")
Default_pow(self, other) == unimpl_binary(type_name(self), type_name(other), "**")

\* the element-wise arms shared by Vec's add, sub, mul, div and pow
Vec_binary(Op(_, _), self, other, name) ==
    CASE category(other) = "Number" ->
            Ok(ArrayV(SeqMap(LAMBDA x : Op(x, other.num), self.arr)))
      [] category(other) = "Array" ->
            Ok(ArrayV(Zip(Op, self.arr, other.arr)))
      [] OTHER -> unimpl_binary(type_name(self), type_name(other), name)

Vec_add(self, other) == Vec_binary(FAdd, self, other, "+")
Vec_sub(self, other) == Vec_binary(FSub, self, other, "-")
Vec_mul(self, other) == Vec_binary(FMul, self, other, "*")
Vec_div(self, other) == Vec_binary(FDiv, self, other, "/")
Vec_pow(self, other) == Vec_binary(FPow, self, other, "^")

Float_add(self, other) ==
    CASE category(other) = "Number" -> Ok(NumberV(FAdd(self.num, other.num)))
      [] category(other) = "Array" -> add(other, self)
      [] OTHER -> unimpl_binary(type_name(self), type_name(other), "+")

Float_sub(self, other) ==
    CASE category(other) = "Number" -> Ok(NumberV(FSub(self.num, other.num)))
      [] category(other) = "Array" -> sub_inv(other, self)
      [] OTHER -> unimpl_binary(type_name(self), type_name(other), "-")

Float_mul(self, other) ==
    CASE category(other) = "Number" -> Ok(NumberV(FMul(self.num, other.num)))
      [] category(other) = "Array" -> mul(other, self)
      [] OTHER -> unimpl_binary(type_name(self), type_name(other), "+")

Float_div(self, other) ==
    CASE category(other) = "Number" -> Ok(NumberV(FDiv(self.num, other.num)))
      [] category(other) = "Array" -> div_inv(other, self)
      [] OTHER -> unimpl_binary(type_name(self), type_name(other), "+")

Float_pow(self, other) ==
    CASE category(other) = "Number" -> Ok(NumberV(FPow(self.num, other.num)))
      [] category(other) = "Array" -> div_inv(other, self)
      [] OTHER -> unimpl_binary(type_name(self), type_name(other), "+")

add(self, other) ==
    CASE category(self) = "Number" -> Float_add(self, other)
      [] category(self) = "Array" -> Vec_add(self, other)
      [] OTHER -> Default_add(self, other)

sub(self, other) ==
    CASE category(self) = "Number" -> Float_sub(self, other)
      [] category(self) = "Array" -> Vec_sub(self, other)
      [] OTHER -> Default_sub(self, other)

mul(self, other) ==
    CASE category(self) = "Number" -> Float_mul(self, other)
      [] category(self) = "Array" -> Vec_mul(self, other)
      [] OTHER -> Default_mul(self, other)

div(self, other) ==
    CASE category(self) = "Number" -> Float_div(self, other)
      [] category(self) = "Array" -> Vec_div(self, other)
      [] OTHER -> Default_div(self, other)

pow(self, other) ==
    CASE category(self) = "Number" -> Float_pow(self, other)
      [] category(self) = "Array" -> Vec_pow(self, other)
      [] OTHER -> Default_pow(self, other)

\* The helpers for the non-commutative operators: neither type overrides them.
\* The argument self.as_number() is evaluated before the call.
sub_inv(self, other) ==
    LET n == as_number(self)
    IN  IF n.tag = "Panic" THEN Panic ELSE sub(other, n.val)

div_inv(self, other) ==
    LET n == as_number(self)
    IN  IF n.tag = "Panic" THEN Panic ELSE div(other, n.val)

pow_inv(self, other) ==
    LET n == as_number(self)
    IN  IF n.tag = "Panic" THEN Panic ELSE pow(other, n.val)

\* elementwise: the trait's default panics, and no type overrides it
elementwise(self, f(_)) == Panic

unary_dispatcher(self, f(_), op) ==
    CASE category(self) = "Number" -> Ok(NumberV(f(self.num)))
      [] category(self) = "Array" -> elementwise(self, f)
      [] OTHER -> Err(EvErr("InvalidUnaryOperation", op, type_name(self), ""))

dyn_sin(self) == unary_dispatcher(self, LAMBDA x : App1("sin", x), "sin()")
dyn_cos(self) == unary_dispatcher(self, LAMBDA x : App1("cos", x), "cos()")
dyn_tan(self) == unary_dispatcher(self, LAMBDA x : App1("tan", x), "tan()")
dyn_cot(self) ==
    unary_dispatcher(self, LAMBDA x : FDiv(F(1), App1("tan", x)), "cot()")
dyn_exp(self) == unary_dispatcher(self, LAMBDA x : App1("exp", x), "exp()")
dyn_log(self) == unary_dispatcher(self, LAMBDA x : App1("ln", x), "log()")
dyn_log2(self) == unary_dispatcher(self, LAMBDA x : App1("log2", x), "log2()")
dyn_log10(self) == unary_dispatcher(self, LAMBDA x : App1("log10", x), "log10()")
dyn_sqrt(self) == unary_dispatcher(self, LAMBDA x : App1("sqrt", x), "sqrt()")

\* The reductions Self -> Float: Vec defines them, Float keeps the defaults.
Vec_min(self) == Ok(NumberV(FoldL(FMin, INFINITY, self.arr)))
Vec_max(self) == Ok(NumberV(FoldL(FMax, NEG_INFINITY, self.arr)))
Vec_range(self) == Ok(NumberV(FSub(Vec_max(self).val.num, Vec_min(self).val.num)))
Vec_sum(self) == Ok(NumberV(FSum(self.arr)))
Vec_avg(self) == Ok(NumberV(FDiv(FSum(self.arr), F(Len(self.arr)))))
Vec_std(self) ==
    LET avg == Vec_avg(self).val.num
        sq_err == FSum(SeqMap(LAMBDA e : FMul(FSub(e, avg), FSub(e, avg)), self.arr))
    IN  Ok(NumberV(App1("sqrt", FDiv(sq_err, F(Len(self.arr))))))

min(self) == IF self.cat = "Array" THEN Vec_min(self) ELSE unimpl_unary(self, "min()")
max(self) == IF self.cat = "Array" THEN Vec_max(self) ELSE unimpl_unary(self, "max()")
avg(self) == IF self.cat = "Array" THEN Vec_avg(self) ELSE unimpl_unary(self, "avg()")
std(self) == IF self.cat = "Array" THEN Vec_std(self) ELSE unimpl_unary(self, "std()")
sum(self) == IF self.cat = "Array" THEN Vec_sum(self) ELSE unimpl_unary(self, "sum()")
range(self) == IF self.cat = "Array" THEN Vec_range(self) ELSE unimpl_unary(self, "range()")

(***************************************************************************)
(* Evaluand::eval's two dispatch tables (dynmath/eval.rs).                 *)
(***************************************************************************)
ArOps == {"Plus", "Minus", "Mul", "Div", "Pow"}

\* match op { AO::Plus => lhs.add(rhs), ... , _ => panic!() }
eval_arop(op, l, r) ==
    CASE op = "Plus" -> add(l, r)
      [] op = "Minus" -> sub(l, r)
      [] op = "Mul" -> mul(l, r)
      [] op = "Div" -> div(l, r)
      [] op = "Pow" -> pow(l, r)
      [] OTHER -> Panic

SingleArgFunctions ==
    {"Sin", "Cos", "Tan", "Cot", "Exp", "Log", "Log2", "Log10", "Sqrt", "Abs"}

VariadicFunctions == {"Min", "Max", "Avg", "Std", "Sum", "Range"}

\* match fun { Function::Sin => arg.dyn_sin(), ... , _ => panic!() }
eval_single(fun, arg) ==
    CASE fun = "Sin" -> dyn_sin(arg)
      [] fun = "Cos" -> dyn_cos(arg)
      [] fun = "Tan" -> dyn_tan(arg)
      [] fun = "Cot" -> dyn_cot(arg)
      [] fun = "Exp" -> dyn_exp(arg)
      [] fun = "Log" -> dyn_log(arg)
      [] fun = "Log2" -> dyn_log2(arg)
      [] fun = "Log10" -> dyn_log10(arg)
      [] fun = "Sqrt" -> dyn_sqrt(arg)
      [] OTHER -> Panic


(***************************************************************************)
(* Tokens (tokenizer/token.rs) and the TokenStream (tokenizer/lexer.rs).   *)
(* A character is a string of length one; a text is a sequence of them.    *)
(***************************************************************************)
Tok(kind, name, val, arity) ==
    [kind |-> kind, name |-> name, val |-> val, arity |-> arity]

ArOpT(o) == Tok("ArOp", o, <<>>, 0)
RelOpT(o) == Tok("RelOp", o, <<>>, 0)
LogicOpT(o) == Tok("LogicOp", o, <<>>, 0)
AssignOpT(o) == Tok("AssignOp", o, <<>>, 0)
LP == Tok("LP", "", <<>>, 0)
RP == Tok("RP", "", <<>>, 0)
LB == Tok("LB", "", <<>>, 0)
RB == Tok("RB", "", <<>>, 0)
Comma == Tok("Comma", "", <<>>, 0)
Dot == Tok("Dot", "", <<>>, 0)
Colon == Tok("Colon", "", <<>>, 0)
NumberT(x) == Tok("Number", "", x, 0)
ConstT(c) == Tok("Const", c, <<>>, 0)
VarT(v) == Tok("Var", v, <<>>, 0)
FuncT(f, max_args) == Tok("Func", f, <<>>, max_args)
Eof == Tok("Eof", "", <<>>, 0)

TokenContext(token, at, len) == [token |-> token, at |-> at, len |-> len]

MAX_FUNC_ARGS == 64

TokenStream(tokens, tokens_reversed, expr, var) ==
    [tokens |-> tokens, tokens_reversed |-> tokens_reversed,
     expr |-> expr, var |-> var]

Reverse(s) == [i \in 1..Len(s) |-> s[Len(s) + 1 - i]]

\* TokenStream::new
TokenStream_new == TokenStream(<<>>, <<>>, <<>>, <<>>)

\* char::len_utf8
len_utf8(c) == IF c \in {"π", "˝", "×"} THEN 2 ELSE IF c = "⋅" THEN 3 ELSE 1

\* String::len: the bytes of the UTF-8 encoding of a sequence of chars
RECURSIVE String_len(_)
String_len(chars) ==
    IF chars = <<>> THEN 0 ELSE len_utf8(chars[1]) + String_len(Tail(chars))

\* TokenStream::eof
eof(ts) == TokenContext(Eof, String_len(ts.expr), 0)

\* TokenStream::peek: the last element of tokens_reversed, or eof
peek(ts) ==
    IF ts.tokens_reversed = <<>> THEN eof(ts)
    ELSE ts.tokens_reversed[Len(ts.tokens_reversed)]

\* TokenStream::next returns what peek returns and leaves the stream popped
popped(ts) ==
    IF ts.tokens_reversed = <<>> THEN ts
    ELSE [ts EXCEPT !.tokens_reversed =
             SubSeq(ts.tokens_reversed, 1, Len(ts.tokens_reversed) - 1)]

(***************************************************************************)
(* The lexer (tokenizer/lexer.rs).  A char is a string of one character, a *)
(* &str or String inside the lexer the sequence of its chars; Str makes    *)
(* the string a token carries.  Offsets and lengths count chars, except    *)
(* String::len, which counts the bytes of the UTF-8 encoding.              *)
(***************************************************************************)
Range(s) == {s[i] : i \in DOMAIN s}

DIGITS == << "0", "1", "2", "3", "4", "5", "6", "7", "8", "9" >>
LOWER ==
    << "a", "b", "c", "d", "e", "f", "g", "h", "i", "j", "k", "l", "m",
       "n", "o", "p", "q", "r", "s", "t", "u", "v", "w", "x", "y", "z" >>
UPPER ==
    << "A", "B", "C", "D", "E", "F", "G", "H", "I", "J", "K", "L", "M",
       "N", "O", "P", "Q", "R", "S", "T", "U", "V", "W", "X", "Y", "Z" >>

\* char::is_ascii_digit, is_alphabetic, is_whitespace on the chars of the model
is_ascii_digit(c) == c \in Range(DIGITS)
is_alphabetic(c) == c \in Range(LOWER) \cup Range(UPPER) \cup {"π"}
is_whitespace(c) == c = " "

\* str::to_lowercase
to_lowercase(chars) ==
    [i \in 1..Len(chars) |->
        IF chars[i] \in Range(UPPER)
        THEN LOWER[CHOOSE k \in 1..Len(UPPER) : UPPER[k] = chars[i]]
        ELSE chars[i]]

\* chars.iter().collect::<String>()
RECURSIVE Str(_)
Str(chars) == IF chars = <<>> THEN "" ELSE chars[1] \o Str(Tail(chars))

INVALIDCHAR == << "#", "?", "˝", "`", "'", "&", "|", "$", "@", "%", "{", "}" >>
SPECIAL_CHARS ==
    << "(", ")", "[", "]", ".", ",", ":", "+", "-", "*", "/", "^", "=", "<", ">",
       "!", "π" >>
FORBIDDEN_IDS ==
    << "min", "max", "avg", "mean", "std", "sin", "cos", "abs", "tan", "cotan",
       "exp", "log", "log2", "log10", "sqrt", "pi", "e", "sqrt2", "sqrt3" >>

\* TokenizerError; the fields a variant lacks are 0 or ""
TErr(kind, ch, at, name) == [kind |-> kind, ch |-> ch, at |-> at, name |-> name]
NoTErr == TErr("", "", 0, "")
SyntaxError(at) == TErr("SyntaxError", "", at, "")
InvalidCharacter(ch, at) == TErr("InvalidCharacter", ch, at, "")
InvalidNumberFormat(at) == TErr("InvalidNumberFormat", "", at, "")
UndefinedVariable(at, name) == TErr("UndefinedVariable", "", at, name)
InvalidVariableIdentifier(name) == TErr("InvalidVariableIdentifier", "", 0, name)

\* Option<(Token, usize)>
Some(token, len) == [some |-> TRUE, token |-> token, len |-> len]
None == [some |-> FALSE, token |-> Eof, len |-> 0]

\* the first invalid char, in the order of INVALIDCHAR, that the text holds,
\* with the position of its first occurrence
check_illegal_characters(chars) ==
    LET found == {k \in 1..Len(INVALIDCHAR) : INVALIDCHAR[k] \in Range(chars)}
    IN  IF found = {} THEN NoTErr
        ELSE LET k == CHOOSE x \in found : \A y \in found : x <= y
                 at == CHOOSE i \in 1..Len(chars) :
                          /\ chars[i] = INVALIDCHAR[k]
                          /\ \A j \in 1..(i - 1) : chars[j] # INVALIDCHAR[k]
             IN  InvalidCharacter(INVALIDCHAR[k], at - 1)

\* the first variable name that is a reserved word
check_input_variables(variables) ==
    LET bad == {i \in 1..Len(variables) : variables[i] \in Range(FORBIDDEN_IDS)}
    IN  IF bad = {} THEN NoTErr
        ELSE InvalidVariableIdentifier(variables[CHOOSE i \in bad : \A j \in bad : i <= j])

parse_single_char_token(c) ==
    CASE c = "(" -> Some(LP, 1)
      [] c = ")" -> Some(RP, 1)
      [] c = "[" -> Some(LB, 1)
      [] c = "]" -> Some(RB, 1)
      [] c = "." -> Some(Dot, 1)
      [] c = "," -> Some(Comma, 1)
      [] c = ":" -> Some(Colon, 1)
      [] c = "+" -> Some(ArOpT("Plus"), 1)
      [] c = "-" -> Some(ArOpT("Minus"), 1)
      [] c = "/" -> Some(ArOpT("Div"), 1)
      [] c = "^" -> Some(ArOpT("Pow"), 1)
      [] c \in {"*", "×", "⋅"} -> Some(ArOpT("Mul"), 1)
      [] c = "=" -> Some(AssignOpT("Assign"), 1)
      [] c = ">" -> Some(RelOpT("Greater"), 1)
      [] c = "<" -> Some(RelOpT("Lesser"), 1)
      [] c = "π" -> Some(ConstT("Pi"), 1)
      [] OTHER -> None

parse_double_char_token(c1, c2) ==
    CASE c1 = "*" /\ c2 = "*" -> Some(ArOpT("Pow"), 2)
      [] c1 = "+" /\ c2 = "=" -> Some(AssignOpT("PlusEq"), 2)
      [] c1 = "-" /\ c2 = "=" -> Some(AssignOpT("MinusEq"), 2)
      [] c1 = "*" /\ c2 = "=" -> Some(AssignOpT("TimesEq"), 2)
      [] c1 = "/" /\ c2 = "=" -> Some(AssignOpT("DivideEq"), 2)
      [] c1 = "=" /\ c2 = "=" -> Some(RelOpT("Eq"), 2)
      [] c1 = ">" /\ c2 = "=" -> Some(RelOpT("Geq"), 2)
      [] c1 = "<" /\ c2 = "=" -> Some(RelOpT("Leq"), 2)
      [] c1 = "!" /\ c2 = "=" -> Some(RelOpT("Neq"), 2)
      [] OTHER -> None

\* parse_special_characters reporting two chars for every token
parse_special_characters_wide(c1, c2) ==
    IF parse_double_char_token(c1, c2).some THEN parse_double_char_token(c1, c2)
    ELSE [parse_single_char_token(c1) EXCEPT !.len = 2]

parse_special_characters(c1, c2) ==
    IF parse_double_char_token(c1, c2).some THEN parse_double_char_token(c1, c2)
    ELSE parse_single_char_token(c1)

\* the loop of parse_number with a second `.` ending the literal
RECURSIVE number_characters_lenient(_, _, _, _, _)
number_characters_lenient(s, i, dots, exp, after_exp) ==
    IF i = Len(s) THEN Len(s)
    ELSE LET c == s[i + 1]
         IN  CASE c = "." /\ dots = 0 -> number_characters_lenient(s, i + 1, 1, exp, after_exp)
               [] c \in {"e", "E"} /\ exp = 0 ->
                     number_characters_lenient(s, i + 1, dots, 1, TRUE)
               [] c = "." /\ dots = 1 -> i
               [] c \in {"e", "E"} /\ exp = 1 -> -1
               [] c = "-" /\ i = 0 -> number_characters_lenient(s, i + 1, dots, exp, after_exp)
               [] c = "-" /\ i # 0 /\ after_exp ->
                     number_characters_lenient(s, i + 1, dots, exp, FALSE)
               [] OTHER ->
                     IF ~is_ascii_digit(c) THEN i
                     ELSE number_characters_lenient(s, i + 1, dots, exp, after_exp)

\* The loop of parse_number over the chars of s from index i (counted from
\* 0): the length of number_characters, or -1 where the loop returns None.
RECURSIVE number_characters(_, _, _, _, _)
number_characters(s, i, dots, exp, after_exp) ==
    IF i = Len(s) THEN Len(s)
    ELSE LET c == s[i + 1]
         IN  CASE c = "." /\ dots = 0 -> number_characters(s, i + 1, 1, exp, after_exp)
               [] c \in {"e", "E"} /\ exp = 0 -> number_characters(s, i + 1, dots, 1, TRUE)
               [] c = "." /\ dots = 1 -> -1
               [] c \in {"e", "E"} /\ exp = 1 -> -1
               [] c = "-" /\ i = 0 -> number_characters(s, i + 1, dots, exp, after_exp)
               [] c = "-" /\ i # 0 /\ after_exp ->
                     number_characters(s, i + 1, dots, exp, FALSE)
               [] OTHER ->
                     IF ~is_ascii_digit(c) THEN i
                     ELSE number_characters(s, i + 1, dots, exp, after_exp)

AllDigits(chars) == \A i \in 1..Len(chars) : is_ascii_digit(chars[i])

\* the number a sequence of decimal digits writes
RECURSIVE DigitsValue(_)
DigitsValue(chars) ==
    IF chars = <<>> THEN 0
    ELSE 10 * DigitsValue(SubSeq(chars, 1, Len(chars) - 1))
            + ((CHOOSE k \in 1..Len(DIGITS) : DIGITS[k] = chars[Len(chars)]) - 1)

RECURSIVE Pow10(_)
Pow10(e) == IF e = 0 THEN 1 ELSE 10 * Pow10(e - 1)

\* m * 10^e as a Float; beyond a few decimal places the literal stays a term
Decimal(m, e) ==
    IF m = 0 THEN F(0)
    ELSE IF e >= 0 /\ e <= 4 THEN Q(m * Pow10(e), 1)
    ELSE IF e < 0 /\ e >= -4 THEN Q(m, Pow10(-e))
    ELSE << Cell("dec", m, e) >>

\* str::parse::<Float> on a text of digits, '.', 'e', 'E' and '-':
\*   Sign? ( Digit+ | Digit+ '.' Digit* | Digit* '.' Digit+ ) ( ('e'|'E') Sign? Digit+ )?
parse_Float(chars) ==
    LET neg == chars # <<>> /\ chars[1] = "-"
        body == IF neg THEN Tail(chars) ELSE chars
        es == {i \in 1..Len(body) : body[i] \in {"e", "E"}}
        e_at == IF es = {} THEN Len(body) + 1 ELSE CHOOSE i \in es : \A j \in es : i <= j
        mant == SubSeq(body, 1, e_at - 1)
        expo == SubSeq(body, e_at + 1, Len(body))
        eneg == expo # <<>> /\ expo[1] = "-"
        edig == IF eneg THEN Tail(expo) ELSE expo
        ds == {i \in 1..Len(mant) : mant[i] = "."}
        dot == IF ds = {} THEN Len(mant) + 1 ELSE CHOOSE i \in ds : \A j \in ds : i <= j
        int == SubSeq(mant, 1, dot - 1)
        frac == SubSeq(mant, dot + 1, Len(mant))
        ok == /\ AllDigits(int) /\ AllDigits(frac)
              /\ Len(int) + Len(frac) >= 1
              /\ es # {} => (AllDigits(edig) /\ Len(edig) >= 1)
        m == DigitsValue(int \o frac)
        e == (IF es = {} THEN 0 ELSE IF eneg THEN -DigitsValue(edig) ELSE DigitsValue(edig))
                - Len(frac)
    IN  IF ~ok THEN [ok |-> FALSE, x |-> NAN]
        ELSE [ok |-> TRUE, x |-> IF neg THEN FNeg(Decimal(m, e)) ELSE Decimal(m, e)]

\* parse_number refusing a leading `-`
parse_number_unsigned(s) ==
    LET n == number_characters(s, 0, 0, 0, FALSE)
    IN  IF n = -1 \/ (s # <<>> /\ s[1] = "-") THEN None
        ELSE IF parse_Float(SubSeq(s, 1, n)).ok
        THEN Some(NumberT(parse_Float(SubSeq(s, 1, n)).x), n)
        ELSE None

parse_number(s) ==
    LET n == number_characters(s, 0, 0, 0, FALSE)
    IN  IF n = -1 THEN None
        ELSE IF parse_Float(SubSeq(s, 1, n)).ok
        THEN Some(NumberT(parse_Float(SubSeq(s, 1, n)).x), n)
        ELSE None

is_ident_char(c) == is_alphabetic(c) \/ is_ascii_digit(c) \/ c = "_"

parse_function(word) ==
    LET w == Str(to_lowercase(word))
    IN  CASE w = "min" -> Some(FuncT("Min", MAX_FUNC_ARGS), Len(word))
          [] w = "max" -> Some(FuncT("Max", MAX_FUNC_ARGS), Len(word))
          [] w = "avg" -> Some(FuncT("Avg", MAX_FUNC_ARGS), Len(word))
          [] w = "mean" -> Some(FuncT("Avg", MAX_FUNC_ARGS), Len(word))
          [] w = "std" -> Some(FuncT("Std", MAX_FUNC_ARGS), Len(word))
          [] w = "sum" -> Some(FuncT("Sum", MAX_FUNC_ARGS), Len(word))
          [] w = "abs" -> Some(FuncT("Abs", 1), Len(word))
          [] w = "sin" -> Some(FuncT("Sin", 1), Len(word))
          [] w = "cos" -> Some(FuncT("Cos", 1), Len(word))
          [] w = "tan" -> Some(FuncT("Tan", 1), Len(word))
          [] w = "cotan" -> Some(FuncT("Cot", 1), Len(word))
          [] w = "exp" -> Some(FuncT("Exp", 1), Len(word))
          [] w = "log" -> Some(FuncT("Log2", 1), Len(word))
          [] w = "log2" -> Some(FuncT("Log2", 1), Len(word))
          [] w = "log10" -> Some(FuncT("Log10", 1), Len(word))
          [] w = "sqrt" -> Some(FuncT("Sqrt", 1), Len(word))
          [] OTHER -> None

parse_const(word) ==
    LET w == Str(to_lowercase(word))
    IN  CASE w \in {"pi", "π"} -> Some(ConstT("Pi"), Len(word))
          [] w = "e" -> Some(ConstT("Euler"), Len(word))
          [] w = "sqrt2" -> Some(ConstT("Sqrt2"), Len(word))
          [] w = "sqrt3" -> Some(ConstT("Sqrt2"), Len(word))
          [] OTHER -> None

\* Result<Token, TokenizerError>, with the length of the word
LexOk(token, len) == [tag |-> "Ok", token |-> token, len |-> len, err |-> NoTErr]
LexErr(e) == [tag |-> "Err", token |-> Eof, len |-> 0, err |-> e]

\* parse_variable without the special case for fields
parse_variable_declared(word, start, variables, prev) ==
    IF Str(word) \in Range(variables)
    THEN LexOk(VarT(Str(word)), Len(word))
    ELSE LexErr(UndefinedVariable(start, Str(word)))

\* prev is the last token pushed, or Eof where there is none
parse_variable(word, start, variables, prev) ==
    LET after_dot == prev = Dot
    IN  IF after_dot \/ Str(word) \in Range(variables)
        THEN LexOk(VarT(Str(word)), Len(word))
        ELSE LexErr(UndefinedVariable(start, Str(word)))

parse_identifier(s, start, variables, previous) ==
    LET ends == {i \in 1..Len(s) : ~is_ident_char(s[i])}
        id_chars == IF ends = {} THEN s
                    ELSE SubSeq(s, 1, (CHOOSE i \in ends : \A j \in ends : i <= j) - 1)
    IN  IF parse_function(id_chars).some
        THEN LexOk(parse_function(id_chars).token, Len(id_chars))
        ELSE IF parse_const(id_chars).some
        THEN LexOk(parse_const(id_chars).token, Len(id_chars))
        ELSE parse_variable(id_chars, start, variables, previous)

\* the loop of tokenize from the cursor on, res being the tokens pushed so far
RECURSIVE tokenize_loop(_, _, _, _), push_token(_, _, _, _, _)
tokenize_loop(expression, variables, cursor, res) ==
    IF cursor >= Len(expression) THEN [tag |-> "Ok", tokens |-> res, err |-> NoTErr]
    ELSE LET next == expression[cursor + 1]
             nextnext == IF cursor + 2 <= Len(expression) THEN expression[cursor + 2] ELSE " "
             rest == SubSeq(expression, cursor + 1, Len(expression))
             last == IF res = <<>> THEN Eof ELSE res[Len(res)].token
         IN  CASE is_whitespace(next) -> tokenize_loop(expression, variables, cursor + 1, res)
               [] ~is_whitespace(next) /\ (is_alphabetic(next) \/ next = "_") ->
                     push_token(parse_identifier(rest, cursor, variables, last),
                                expression, variables, cursor, res)
               [] ~is_whitespace(next) /\ ~(is_alphabetic(next) \/ next = "_")
                    /\ (is_ascii_digit(next) \/ (next = "-" /\ is_ascii_digit(nextnext))) ->
                     (IF parse_number(rest).some
                      THEN push_token(LexOk(parse_number(rest).token, parse_number(rest).len),
                                      expression, variables, cursor, res)
                      ELSE [tag |-> "Err", tokens |-> res, err |-> InvalidNumberFormat(cursor)])
               [] OTHER ->
                     IF next \in Range(SPECIAL_CHARS)
                     THEN (IF parse_special_characters(next, nextnext).some
                           THEN push_token(LexOk(parse_special_characters(next, nextnext).token,
                                                 parse_special_characters(next, nextnext).len),
                                           expression, variables, cursor, res)
                           ELSE [tag |-> "Err", tokens |-> res, err |-> SyntaxError(cursor)])
                     ELSE [tag |-> "Err", tokens |-> res, err |-> InvalidCharacter(next, cursor)]

\* Ok((t, wordsize)): push the token and advance; Err(e): return it
push_token(parsed, expression, variables, cursor, res) ==
    IF parsed.tag = "Ok"
    THEN tokenize_loop(expression, variables, cursor + parsed.len,
                       Append(res, TokenContext(parsed.token, cursor, parsed.len)))
    ELSE [tag |-> "Err", tokens |-> res, err |-> parsed.err]

tokenize(input, variables) ==
    IF check_input_variables(variables) # NoTErr
    THEN [tag |-> "Err", tokens |-> <<>>, err |-> check_input_variables(variables)]
    ELSE IF check_illegal_characters(input) # NoTErr
    THEN [tag |-> "Err", tokens |-> <<>>, err |-> check_illegal_characters(input)]
    ELSE tokenize_loop(input, variables, 0, <<>>)

\* TokenStream::tokenize: the stream it leaves and what it returns
TokenStream_tokenize(self, res) ==
    IF res.tag = "Ok"
    THEN [ts |-> [self EXCEPT !.tokens = res.tokens,
                              !.tokens_reversed = Reverse(res.tokens)],
          tag |-> "Ok", err |-> NoTErr]
    ELSE [ts |-> [self EXCEPT !.tokens = <<>>, !.tokens_reversed = <<>>],
          tag |-> "Err", err |-> res.err]

\* TokenStream::update
update(self, expression, variables) ==
    TokenStream_tokenize([self EXCEPT !.expr = expression, !.var = variables],
                         tokenize(expression, variables))

(***************************************************************************)
(* The parser (parser.rs).                                                 *)
(***************************************************************************)
PErr(kind, n, hint) == [kind |-> kind, n |-> n, hint |-> hint]
NoPErr == PErr("", 0, "")

Atom(tc) == [atom |-> TRUE, tc |-> tc, args |-> <<>>]
Expression(tc, args) == [atom |-> FALSE, tc |-> tc, args |-> args]
NoBranch == [atom |-> TRUE, tc |-> TokenContext(Eof, 0, 0), args |-> <<>>]

\* the outcome of a parsing function, with the stream as it leaves it
POk(branch, ts) == [tag |-> "Ok", branch |-> branch, err |-> NoPErr, ts |-> ts]
PFail(e, ts) == [tag |-> "Err", branch |-> NoBranch, err |-> e, ts |-> ts]
PPanic(ts) == [tag |-> "Panic", branch |-> NoBranch, err |-> NoPErr, ts |-> ts]

NoBp == << -1, -1 >>

prefix_precedence(t) ==
    IF t.kind = "ArOp" /\ t.name \in {"Plus", "Minus"} THEN << 0, 9 >> ELSE NoBp

postfix_precedence(t) == IF t.kind = "LB" THEN << 11, 0 >> ELSE NoBp

\* infix_precedence with the binding powers of the additive and the
\* multiplicative operators exchanged
infix_precedence_swapped(t) ==
    CASE t.kind = "ArOp" /\ t.name \in {"Plus", "Minus"} -> << 12, 13 >>
      [] t.kind = "ArOp" /\ t.name \in {"Mul", "Div"} -> << 10, 11 >>
      [] t.kind = "ArOp" /\ t.name = "Pow" -> << 14, 15 >>
      [] t.kind = "RelOp" -> << 2, 1 >>
      [] t.kind = "LogicOp" -> << 4, 3 >>
      [] t.kind = "AssignOp" -> << 2, 1 >>
      [] t.kind = "Dot" -> << 14, 13 >>
      [] t.kind = "Colon" -> << 6, 5 >>
      [] OTHER -> NoBp

infix_precedence(t) ==
    CASE t.kind = "ArOp" /\ t.name \in {"Plus", "Minus"} -> << 10, 11 >>
      [] t.kind = "ArOp" /\ t.name \in {"Mul", "Div"} -> << 12, 13 >>
      [] t.kind = "ArOp" /\ t.name = "Pow" -> << 14, 15 >>
      [] t.kind = "RelOp" -> << 2, 1 >>
      [] t.kind = "LogicOp" -> << 4, 3 >>
      [] t.kind = "AssignOp" -> << 2, 1 >>
      [] t.kind = "Dot" -> << 14, 13 >>
      [] t.kind = "Colon" -> << 6, 5 >>
      [] OTHER -> NoBp

is_atom(t) == t.kind \in {"Var", "Number", "Const"}

RECURSIVE pratt_parser(_, _), pratt_loop(_, _, _), pratt_args(_, _)

\* the prefix position of pratt_parser, then its loop
pratt_parser(ts, min_precedence) ==
    LET next == peek(ts)
        ts1 == popped(ts)
    IN  CASE is_atom(next.token) -> pratt_loop(ts1, Atom(next), min_precedence)
          [] next.token.kind = "LP" ->
                LET res == pratt_parser(ts1, 0)
                IN  IF res.tag = "Ok"
                    THEN \* the match guard calls ts.next() before comparing
                         IF peek(res.ts).token = RP
                         THEN pratt_loop(popped(res.ts), res.branch, min_precedence)
                         ELSE PFail(PErr("MissingRP", 1, ""), popped(res.ts))
                    ELSE res
          [] next.token.kind = "Func" ->
                IF peek(ts1).token # LP
                THEN PFail(PErr("UnexpectedToken", 1, ""), popped(ts1))
                ELSE LET a == pratt_args(popped(ts1), <<>>)
                     IN  IF a.tag # "Ok" THEN a
                         ELSE IF Len(a.branch.args) = 0
                         THEN PFail(PErr("MissingArgument", next.at, ""), a.ts)
                         ELSE pratt_loop(a.ts, Expression(next, a.branch.args),
                                         min_precedence)
          [] OTHER ->
                IF prefix_precedence(next.token) # NoBp
                THEN \* pratt_parser(ts, r_bp).unwrap()
                     LET r == pratt_parser(ts1, prefix_precedence(next.token)[2])
                     IN  IF r.tag = "Ok"
                         THEN pratt_loop(r.ts, Expression(next, << r.branch >>),
                                         min_precedence)
                         ELSE PPanic(r.ts)
                ELSE PFail(PErr("UnexpectedToken", next.at, ""), ts1)

\* the argument loop of a function call; the arguments are returned as the
\* children of a Branch
pratt_args(ts, args) ==
    LET res == pratt_parser(ts, 0)
    IN  IF res.tag # "Ok" THEN res
        ELSE LET next == peek(res.ts)
                 ts1 == popped(res.ts)
                 args1 == Append(args, res.branch)
             IN  CASE next.token = RP -> POk(Expression(next, args1), ts1)
                   [] next.token = Comma -> pratt_args(ts1, args1)
                   [] OTHER -> PFail(PErr("UnexpectedToken", next.at, ""), ts1)

\* the infix / postfix loop of pratt_parser
pratt_loop(ts, lhs, min_precedence) ==
    LET peeked == peek(ts)
        op == peeked.token
    IN  CASE op = Eof -> POk(lhs, ts)
          [] is_atom(op) -> PFail(PErr("UnexpectedToken", peeked.at, ""), ts)
          [] postfix_precedence(op) # NoBp ->
                IF postfix_precedence(op)[1] < min_precedence THEN POk(lhs, ts)
                ELSE IF op = LB
                THEN LET r == pratt_parser(popped(ts), 0)
                     IN  CASE r.tag = "Ok" ->
                                \* assert_eq!(ts.next().token, Token::RB)
                                IF peek(r.ts).token = RB
                                THEN pratt_loop(popped(r.ts),
                                         Expression(peeked, << lhs, r.branch >>),
                                         min_precedence)
                                ELSE PPanic(popped(r.ts))
                           [] r.tag = "Err" ->
                                PFail(PErr("UnexpectedToken", peeked.at, ""), r.ts)
                           [] OTHER -> r
                ELSE pratt_loop(popped(ts), Expression(peeked, << lhs >>),
                                min_precedence)
          [] infix_precedence(op) # NoBp ->
                IF infix_precedence(op)[1] < min_precedence THEN POk(lhs, ts)
                ELSE LET r == pratt_parser(popped(ts), infix_precedence(op)[2])
                     IN  CASE r.tag = "Ok" ->
                                pratt_loop(r.ts, Expression(peeked, << lhs, r.branch >>),
                                           min_precedence)
                           [] r.tag = "Err" ->
                                PFail(PErr("UnexpectedToken", peeked.at, ""), r.ts)
                           [] OTHER -> r
          [] OTHER -> POk(lhs, ts)

parse_tokenstream(ts) == pratt_parser(ts, 0)

\* the running count of check_parens after the first i tokens
RECURSIVE ParenCount(_, _)
ParenCount(tokens, i) ==
    IF i = 0 THEN 0
    ELSE ParenCount(tokens, i - 1)
            + (CASE tokens[i].token = LP -> 1
                 [] tokens[i].token = RP -> -1
                 [] OTHER -> 0)

\* AST::check_parens: NoPErr when the parentheses balance
check_parens(ts) ==
    LET neg == {i \in 1..Len(ts.tokens) : ParenCount(ts.tokens, i) = -1}
        n == ParenCount(ts.tokens, Len(ts.tokens))
    IN  IF neg # {}
        THEN PErr("UnexpectedLP", ts.tokens[CHOOSE i \in neg : \A j \in neg : i <= j].at, "")
        ELSE IF n = 0 THEN NoPErr ELSE PErr("MissingRP", n, "")

\* check_tokens letting the relational operators pass
Disallowed_norel(tc) ==
    \/ tc.token.kind = "AssignOp" /\ tc.token.name # "Assign"
    \/ tc.token.kind = "LogicOp"

Disallowed(tc) ==
    \/ tc.token.kind = "AssignOp" /\ tc.token.name # "Assign"
    \/ tc.token.kind = "LogicOp"
    \/ tc.token.kind = "RelOp"

\* AST::check_tokens: NoPErr when no token is disallowed
check_tokens(ts) ==
    LET bad == {i \in 1..Len(ts.tokens) : Disallowed(ts.tokens[i])}
    IN  IF bad = {} THEN NoPErr
        ELSE LET tc == ts.tokens[CHOOSE i \in bad : \A j \in bad : i <= j]
             IN  PErr("InvalidOperation", tc.at,
                      CASE tc.token.kind = "AssignOp" -> "Only simple assignment is allowed."
                        [] tc.token.kind = "LogicOp" -> "Logical operators are not allowed."
                        [] OTHER -> "Comparison operators are not allowed.")

\* AST: the token stream and the tree (None is NoBranch with has_tree FALSE)
AST_new(ts) == [ts |-> ts, has_tree |-> FALSE, tree |-> NoBranch]

\* AST::parse_tokens: the AST it leaves and what it returns
parse_tokens(ast) ==
    IF check_parens(ast.ts) # NoPErr
    THEN [ast |-> ast, tag |-> "Err", err |-> check_parens(ast.ts)]
    ELSE IF check_tokens(ast.ts) # NoPErr
    THEN [ast |-> ast, tag |-> "Err", err |-> check_tokens(ast.ts)]
    ELSE LET r == parse_tokenstream(ast.ts)
         IN  CASE r.tag = "Ok" ->
                    [ast |-> [ts |-> r.ts, has_tree |-> TRUE, tree |-> r.branch],
                     tag |-> "Ok", err |-> NoPErr]
               [] r.tag = "Err" ->
                    [ast |-> [ast EXCEPT !.ts = r.ts], tag |-> "Err", err |-> r.err]
               [] OTHER ->
                    [ast |-> [ast EXCEPT !.ts = r.ts], tag |-> "Panic", err |-> NoPErr]

\* TokenStream::identical: as many tokens, and equal token by token; offsets
\* and lengths are not compared
identical(self, other) ==
    /\ Len(self.tokens) = Len(other.tokens)
    /\ \A i \in 1..Len(self.tokens) : self.tokens[i].token = other.tokens[i].token

\* AST::update_tokens: the AST it leaves
update_tokens(ast, new_ts) ==
    IF identical(ast.ts, new_ts) THEN ast ELSE AST_new(new_ts)

(***************************************************************************)
(* The variadic functions (dynmath/mod.rs) and the evaluator               *)
(* (dynmath/eval.rs).  A HashMap is a function on the set of its keys.     *)
(***************************************************************************)
EmptyMap == << >>

Put(map, k, v) == [x \in (DOMAIN map) \cup {k} |-> IF x = k THEN v ELSE map[x]]

ZERO_ARGS_ERR == "needs at least one argument"
MULTI_ARGS_ERR == "accepts a single array or multiple scalar values"

invalid_args_err(func, details) == Err(EvErr("InvalidArguments", func, details, ""))

\* all_scalars looking at the first argument only
all_scalars_first(args) == Len(args) = 0 \/ category(args[1]) = "Number"

all_scalars(args) == \A i \in 1..Len(args) : category(args[i]) = "Number"

\* called only when all_scalars holds: as_number of each argument
unbox_numbers(args) == [i \in 1..Len(args) |-> args[i].num]

dynmath_min(args) ==
    CASE Len(args) = 0 -> invalid_args_err("min", ZERO_ARGS_ERR)
      [] Len(args) = 1 -> min(args[1])
      [] Len(args) > 1 /\ ~all_scalars(args) -> invalid_args_err("min", MULTI_ARGS_ERR)
      [] OTHER -> Ok(NumberV(FoldL(FMin, INFINITY, unbox_numbers(args))))

dynmath_max(args) ==
    CASE Len(args) = 0 -> invalid_args_err("max", ZERO_ARGS_ERR)
      [] Len(args) = 1 -> max(args[1])
      [] Len(args) > 1 /\ ~all_scalars(args) -> invalid_args_err("max", MULTI_ARGS_ERR)
      [] OTHER -> Ok(NumberV(FoldL(FMax, NEG_INFINITY, unbox_numbers(args))))

\* both folds of the several-scalars arm start from INFINITY, as in the source
dynmath_range(args) ==
    CASE Len(args) = 0 -> invalid_args_err("range", ZERO_ARGS_ERR)
      [] Len(args) = 1 ->
            (IF max(args[1]).tag = "Err" THEN max(args[1])
             ELSE IF min(args[1]).tag = "Err" THEN min(args[1])
             ELSE Ok(NumberV(FSub(max(args[1]).val.num, min(args[1]).val.num))))
      [] Len(args) > 1 /\ ~all_scalars(args) -> invalid_args_err("range", MULTI_ARGS_ERR)
      [] OTHER ->
            LET v == unbox_numbers(args)
            IN  Ok(NumberV(FSub(FoldL(FMax, INFINITY, v), FoldL(FMin, INFINITY, v))))

\* the one-argument arm iterates the argument, which panics unless it is an Array
dynmath_sum(args) ==
    CASE Len(args) = 0 -> invalid_args_err("sum", ZERO_ARGS_ERR)
      [] Len(args) = 1 ->
            (IF iterate(args[1]).tag = "Panic" THEN Panic
             ELSE Ok(NumberV(FSum(args[1].arr))))
      [] Len(args) > 1 /\ ~all_scalars(args) -> invalid_args_err("sum", MULTI_ARGS_ERR)
      [] OTHER -> Ok(NumberV(FSum(unbox_numbers(args))))

dynmath_avg(args) ==
    CASE Len(args) = 0 -> invalid_args_err("avg", ZERO_ARGS_ERR)
      [] Len(args) = 1 -> avg(args[1])
      [] Len(args) > 1 /\ ~all_scalars(args) -> invalid_args_err("avg", MULTI_ARGS_ERR)
      [] OTHER -> Ok(NumberV(FDiv(FSum(unbox_numbers(args)), F(Len(args)))))

dynmath_std(args) ==
    CASE Len(args) = 0 -> invalid_args_err("std", ZERO_ARGS_ERR)
      [] Len(args) = 1 -> std(args[1])
      [] Len(args) > 1 /\ ~all_scalars(args) -> invalid_args_err("std", MULTI_ARGS_ERR)
      [] OTHER ->
            LET v == unbox_numbers(args)
                mean == FDiv(FSum(v), F(Len(args)))
                sq_err == FSum(SeqMap(LAMBDA e : FMul(FSub(e, mean), FSub(e, mean)), v))
            IN  Ok(NumberV(App1("sqrt", FDiv(sq_err, F(Len(args))))))

\* match fun { Function::Min => dynmath_min(&args), ... , _ => panic!() }
eval_variadic(fun, args) ==
    CASE fun = "Min" -> dynmath_min(args)
      [] fun = "Max" -> dynmath_max(args)
      [] fun = "Avg" -> dynmath_avg(args)
      [] fun = "Std" -> dynmath_std(args)
      [] fun = "Sum" -> dynmath_sum(args)
      [] fun = "Range" -> dynmath_range(args)
      [] OTHER -> Panic

\* Constant::value: the constant as a term of its own
Constant_value(c) == << Cell(c, 0, 0) >>

Evaluand(op, args) == [op |-> op, args |-> args]

\* Evaluand::eval.  debug tells whether the build checks debug assertions.
Evaluand_eval(self, values, debug) ==
    LET n == Len(self.args)
        has(i) == i <= n /\ self.args[i] \in DOMAIN values
        get_val(i) == values[self.args[i]]
    IN  CASE self.op.token.kind = "ArOp" ->
                (IF debug /\ n # 2 THEN Panic
                 ELSE IF ~has(1) \/ ~has(2) THEN Panic
                 ELSE eval_arop(self.op.token.name, get_val(1), get_val(2)))
          [] self.op.token.kind = "Func" ->
                (IF debug /\ n > self.op.token.arity THEN Panic
                 ELSE IF self.op.token.arity = 1
                 THEN (IF ~has(1) THEN Panic
                       ELSE eval_single(self.op.token.name, get_val(1)))
                 ELSE IF \E i \in 1..n : ~has(i) THEN Panic
                 ELSE eval_variadic(self.op.token.name, [i \in 1..n |-> get_val(i)]))
          [] OTHER -> Panic


\* The state flatten_tree threads through recurse_tree: the three maps, the
\* IdGenerator's _id, and whether the unexpected-token panic was hit.
FlatState(values, expressions, aliases, _id, panicked) ==
    [values |-> values, expressions |-> expressions, aliases |-> aliases,
     _id |-> _id, panicked |-> panicked]

\* the first loop of the Expression arm: an argument that is a variable
\* already in aliases takes the recorded id, any other argument a fresh one
RECURSIVE arg_ids(_, _, _)
arg_ids(args, aliases, _id) ==
    IF args = <<>> THEN [ids |-> <<>>, _id |-> _id]
    ELSE LET arg == args[1]
             known == arg.atom /\ arg.tc.token.kind = "Var"
                        /\ arg.tc.token.name \in DOMAIN aliases
             rest == arg_ids(Tail(args), aliases, IF known THEN _id ELSE _id + 1)
         IN  [ids |-> << IF known THEN aliases[arg.tc.token.name] ELSE _id >> \o rest.ids,
              _id |-> rest._id]

RECURSIVE recurse_tree(_, _, _), recurse_args(_, _, _)
recurse_tree(tree, st, id) ==
    IF st.panicked THEN st
    ELSE IF tree.atom
    THEN CASE tree.tc.token.kind = "Const" ->
                [st EXCEPT !.values =
                    Put(st.values, id, NumberV(Constant_value(tree.tc.token.name)))]
           [] tree.tc.token.kind = "Number" ->
                [st EXCEPT !.values = Put(st.values, id, NumberV(tree.tc.token.val))]
           [] tree.tc.token.kind = "Var" ->
                [st EXCEPT !.aliases = Put(st.aliases, tree.tc.token.name, id)]
           [] OTHER -> [st EXCEPT !.panicked = TRUE]
    ELSE LET a == arg_ids(tree.args, st.aliases, st._id)
             st1 == [st EXCEPT !.expressions =
                                  Put(st.expressions, id, Evaluand(tree.tc, a.ids)),
                               !._id = a._id]
         IN  recurse_args(tree.args, a.ids, st1)

\* the second loop of the Expression arm
recurse_args(args, ids, st) ==
    IF args = <<>> THEN st
    ELSE recurse_args(Tail(args), Tail(ids), recurse_tree(args[1], st, ids[1]))

flatten_tree(ast) ==
    LET st0 == FlatState(EmptyMap, EmptyMap, EmptyMap, 0, FALSE)
    IN  IF ast.has_tree
        THEN recurse_tree(ast.tree, [st0 EXCEPT !._id = 1], 0)
        ELSE st0

Evaluator(values, expressions, aliases) ==
    [values |-> values, expressions |-> expressions, aliases |-> aliases]

NoEvaluator == Evaluator(EmptyMap, EmptyMap, EmptyMap)

\* Evaluator::from_ast
from_ast(ast) ==
    LET st == flatten_tree(ast)
    IN  Evaluator(st.values, st.expressions, st.aliases)

\* the ids of a set in descending order
RECURSIVE SortDesc(_)
SortDesc(S) ==
    IF S = {} THEN <<>>
    ELSE LET top == CHOOSE x \in S : \A y \in S : y <= x
         IN  << top >> \o SortDesc(S \ {top})

\* the loop of evaluate over eval_order: each expression is evaluated and its
\* result matched, an Ok result stored in values, any other ending the loop
RECURSIVE eval_loop(_, _, _, _), match_result(_, _, _, _, _)
eval_loop(order, expressions, values, debug) ==
    IF order = <<>> THEN [tag |-> "Ok", values |-> values, res |-> NoRes]
    ELSE match_result(Evaluand_eval(expressions[order[1]], values, debug),
                      order, expressions, values, debug)

match_result(result, order, expressions, values, debug) ==
    IF result.tag = "Ok"
    THEN eval_loop(Tail(order), expressions, Put(values, order[1], result.val), debug)
    ELSE [tag |-> result.tag, values |-> values, res |-> result]

\* the end of evaluate returning the root's value as the previous call left it
evaluate_return_stale(self, done, final_result_id) ==
    [self |-> [self EXCEPT !.values = done.values],
     res |-> IF done.tag # "Ok" THEN done.res
             ELSE IF final_result_id \in DOMAIN self.values
             THEN Ok(self.values[final_result_id])
             ELSE Ok(done.values[final_result_id])]

\* the end of evaluate: the root's value, or the error or panic of the loop
evaluate_return(self, done, final_result_id) ==
    [self |-> [self EXCEPT !.values = done.values],
     res |-> IF done.tag = "Ok" THEN Ok(done.values[final_result_id]) ELSE done.res]

\* Evaluator::evaluate: the evaluator it leaves and what it returns
evaluate(self, inputs, debug) ==
    IF \E varname \in DOMAIN inputs : varname \notin DOMAIN self.aliases
    THEN [self |-> self, res |-> Panic]
    ELSE LET values == [id \in (DOMAIN self.values)
                                 \cup {self.aliases[v] : v \in DOMAIN inputs} |->
                           IF \E v \in DOMAIN inputs : self.aliases[v] = id
                           THEN inputs[CHOOSE v \in DOMAIN inputs : self.aliases[v] = id]
                           ELSE self.values[id]]
             eval_order == SortDesc(DOMAIN self.expressions)
         IN  IF eval_order = <<>>
             THEN [self |-> [self EXCEPT !.values = values], res |-> Panic]
             ELSE evaluate_return(self,
                                  eval_loop(eval_order, self.expressions, values, debug),
                                  eval_order[Len(eval_order)])

\* Result<Evaluator, ParsingError>: the error of the Err variant is a
\* ParsingError by the signature of Evaluator::new
NewOk(ev) == [tag |-> "Ok", ev |-> ev, error_type |-> "", err |-> NoPErr]
NewErr(e) == [tag |-> "Err", ev |-> NoEvaluator, error_type |-> "ParsingError", err |-> e]
NewPanic == [tag |-> "Panic", ev |-> NoEvaluator, error_type |-> "", err |-> NoPErr]
NoNew == [tag |-> "None", ev |-> NoEvaluator, error_type |-> "", err |-> NoPErr]

\* the end of Evaluator::new: the parser's error returned, or the evaluator built
new_return(parsed) ==
    CASE parsed.tag = "Err" -> NewErr(parsed.err)
      [] parsed.tag = "Ok" -> NewOk(from_ast(parsed.ast))
      [] OTHER -> NewPanic

\* Evaluator::new: what ts.update returns is dropped, the stream it leaves parsed
Evaluator_new(expression, variables) ==
    new_return(parse_tokens(AST_new(update(TokenStream_new, expression, variables).ts)))

RECURSIVE SeqsUpTo(_, _)
SeqsUpTo(S, n) ==
    IF n = 0 THEN {<<>>}
    ELSE LET shorter == SeqsUpTo(S, n - 1)
         IN  shorter \cup {Append(q, x) : q \in {t \in shorter : Len(t) = n - 1}, x \in S}


(***************************************************************************)
(* Bounded inputs: token streams as the lexer writes them.  A lexeme is a  *)
(* token with its text; the expression of a stream is its texts separated  *)
(* by single spaces, which fixes every token's offset and length.          *)
(***************************************************************************)
Lexeme(text, token) == [text |-> text, token |-> token]

LxOne == Lexeme(<<"1">>, NumberT(F(1)))
LxA == Lexeme(<<"a">>, VarT("a"))
LxPi == Lexeme(<<"p", "i">>, ConstT("Pi"))
LxPlus == Lexeme(<<"+">>, ArOpT("Plus"))
LxMinus == Lexeme(<<"-">>, ArOpT("Minus"))
LxMul == Lexeme(<<"*">>, ArOpT("Mul"))
LxDiv == Lexeme(<<"/">>, ArOpT("Div"))
LxPow == Lexeme(<<"*", "*">>, ArOpT("Pow"))
LxDot == Lexeme(<<".">>, Dot)
LxLP == Lexeme(<<"(">>, LP)
LxRP == Lexeme(<<")">>, RP)
LxLB == Lexeme(<<"[">>, LB)
LxRB == Lexeme(<<"]">>, RB)
LxComma == Lexeme(<<",">>, Comma)
LxColon == Lexeme(<<":">>, Colon)
LxAssign == Lexeme(<<"=">>, AssignOpT("Assign"))
LxPlusEq == Lexeme(<<"+", "=">>, AssignOpT("PlusEq"))
LxEq == Lexeme(<<"=", "=">>, RelOpT("Eq"))
LxSin == Lexeme(<<"s", "i", "n">>, FuncT("Sin", 1))
LxMax == Lexeme(<<"m", "a", "x">>, FuncT("Max", MAX_FUNC_ARGS))
\* no text lexes to a LogicOp: such a token is pushed to the public `tokens`
LxAnd == Lexeme(<<"a", "n", "d">>, LogicOpT("And"))

AtomLexemes == {LxOne, LxA}
BinaryLexemes == {LxPlus, LxMinus, LxMul, LxDiv, LxPow, LxDot}
FuncLexemes == {LxSin, LxMax}
AllLexemes ==
    {LxOne, LxA, LxPi, LxPlus, LxMinus, LxMul, LxPow, LxDot, LxLP, LxRP, LxLB,
     LxRB, LxComma, LxColon, LxAssign, LxPlusEq, LxEq, LxSin, LxMax}

\* the declared input names of every generated stream
StreamVars == <<"a">>

RECURSIVE Offset(_, _)
Offset(lexs, i) ==
    IF i = 1 THEN 0 ELSE Offset(lexs, i - 1) + Len(lexs[i - 1].text) + 1

RECURSIVE ExprOf(_)
ExprOf(lexs) ==
    IF lexs = <<>> THEN <<>>
    ELSE IF Len(lexs) = 1 THEN lexs[1].text
    ELSE lexs[1].text \o <<" ">> \o ExprOf(Tail(lexs))

StreamOf(lexs) ==
    LET toks == [i \in 1..Len(lexs) |->
                    TokenContext(lexs[i].token, Offset(lexs, i), Len(lexs[i].text))]
    IN  TokenStream(toks, Reverse(toks), ExprOf(lexs), StreamVars)

MaxTokens == 2
MaxOps == 2
MaxArgs == 2

\* atom (op atom)^k: k binary operators and no parentheses
RECURSIVE FlatExprs(_)
FlatExprs(k) ==
    IF k = 0 THEN {<<a>> : a \in AtomLexemes}
    ELSE {e \o <<o, a>> : e \in FlatExprs(k - 1), o \in BinaryLexemes, a \in AtomLexemes}

Wrap(e) == IF Len(e) = 1 THEN e ELSE <<LxLP>> \o e \o <<LxRP>>

\* every expression of exactly k binary operators, each operand that is not
\* an atom in parentheses
RECURSIVE ParenExprs(_)
ParenExprs(k) ==
    IF k = 0 THEN {<<a>> : a \in AtomLexemes}
    ELSE UNION {{Wrap(l) \o <<o>> \o Wrap(r) :
                    l \in ParenExprs(i), o \in BinaryLexemes, r \in ParenExprs(k - 1 - i)} :
                i \in 0..(k - 1)}

\* f ( a1 , ... , an )
RECURSIVE ArgLists(_)
ArgLists(n) ==
    IF n = 0 THEN {<<>>}
    ELSE IF n = 1 THEN {<<a>> : a \in AtomLexemes}
    ELSE {l \o <<LxComma, a>> : l \in ArgLists(n - 1), a \in AtomLexemes}

CallExprs ==
    {<<f, LxLP>> \o l \o <<LxRP>> :
        f \in FuncLexemes, l \in UNION {ArgLists(n) : n \in 0..MaxArgs}}

\* longer streams with prefix operators, indexing, slices and nested calls
SpecialStreams ==
    { << LxMinus, LxA, LxPlus, LxOne >>,
      << LxMinus, LxA, LxMinus, LxOne >>,
      << LxPlus, LxA, LxMinus, LxA >>,
      << LxMinus, LxA, LxPow, LxOne >>,
      << LxOne, LxMul, LxMinus, LxA >>,
      << LxLP, LxMinus, LxA, LxRP >>,
      << LxMinus, LxMinus, LxA >>,
      << LxA, LxPlus, LxMinus >>,
      << LxA, LxLB, LxOne >>,
      << LxA, LxLB, LxOne, LxRB >>,
      << LxA, LxLB, LxOne, LxColon, LxOne, LxRB >>,
      << LxA, LxLB, LxOne, LxRB, LxDot, LxA >>,
      << LxSin, LxLP, LxSin, LxLP, LxA, LxRP, LxRP >>,
      << LxMax, LxLP, LxA, LxPlus, LxOne, LxComma, LxOne, LxRP >>,
      << LxSin, LxLP, LxA, LxComma, LxRP >>,
      << LxSin, LxLP, LxA >>,
      << LxLP, LxA, LxPlus, LxOne >>,
      << LxA, LxPlus, LxOne, LxRP >>,
      << LxA, LxAssign, LxOne, LxPlus, LxA >>,
      << LxA, LxEq, LxOne >>,
      << LxA, LxEq, LxOne, LxPlusEq, LxA >>,
      << LxLP, LxA, LxPlusEq, LxOne, LxRP, LxEq, LxA >>,
      << LxA, LxAnd, LxA >>,
      << LxA, LxPlus, LxAnd, LxEq, LxOne >>,
      << LxA, LxPlusEq, LxOne, LxRP >>,
      << LxA, LxOne, LxPlus >>,
      << LxOne, LxComma, LxOne >>,
      << LxPi, LxMul, LxA >> }

LexemeStreams ==
    SeqsUpTo(AllLexemes, MaxTokens)
        \cup UNION {FlatExprs(k) \cup ParenExprs(k) : k \in 0..MaxOps}
        \cup CallExprs
        \cup SpecialStreams

(***************************************************************************)
(* SpecParse: an AST built on a token stream, and AST::parse_tokens called *)
(* on it.                                                                  *)
(***************************************************************************)
MaxParseCalls == 2

MathIdle ==
    m_lhs = NoVal /\ m_rhs = NoVal /\ m_op = "" /\ m_res = NoRes /\ m_args = << >>


NoPRes == [tag |-> "None", err |-> NoPErr]

ParseIdle ==
    p_ast = AST_new(TokenStream_new) /\ p_res = NoPRes /\ p_calls = 0 /\ p_upd = "none"

EvalIdle ==
    /\ e_ast = AST_new(TokenStream_new)
    /\ e_ev = NoEvaluator
    /\ e_in = EmptyMap
    /\ e_res = NoRes
    /\ e_calls = 0
    /\ e_hist = << >>
    /\ e_debug = FALSE

NoLex == [tag |-> "None", err |-> NoTErr]

NewIdle == n_expr = <<>> /\ n_vars = <<>> /\ n_lex = NoLex /\ n_res = NoNew

LexIdle == l_expr = <<>> /\ l_vars = <<>> /\ l_ts = TokenStream_new /\ l_res = NoLex

ParseInit ==
    /\ \E lexs \in LexemeStreams : p_ast = AST_new(StreamOf(lexs))
    /\ p_res = NoPRes
    /\ p_calls = 0
    /\ p_upd = "none"
    /\ MathIdle
    /\ EvalIdle
    /\ NewIdle
    /\ LexIdle

\* AST::parse_tokens; a panic ends the program
ParseTokens ==
    /\ p_res.tag # "Panic"
    /\ p_calls < MaxParseCalls
    /\ LET r == parse_tokens(p_ast)
       IN  /\ p_ast' = r.ast
           /\ p_res' = [tag |-> r.tag, err |-> r.err]
    /\ p_calls' = p_calls + 1
    /\ UNCHANGED <<p_upd, mathVars, evalVars, newVars, lexVars>>

\* the stream TokenStream::tokenize builds of the same tokens: nothing consumed
Retokenized(ts) == [ts EXCEPT !.tokens_reversed = Reverse(ts.tokens)]

\* AST::update_tokens called once, after the first parse_tokens call, with a
\* stream of the same tokens or with the stream of `a + 1`.  When the stream
\* is replaced, p_res and p_calls start again for the new stream.
UpdateTokens ==
    /\ p_res.tag # "Panic"
    /\ p_calls = 1
    /\ p_upd = "none"
    /\ \E new_ts \in {Retokenized(p_ast.ts), StreamOf(<< LxA, LxPlus, LxOne >>)} :
          /\ p_ast' = update_tokens(p_ast, new_ts)
          /\ IF identical(p_ast.ts, new_ts)
             THEN p_upd' = "identical" /\ UNCHANGED <<p_res, p_calls>>
             ELSE p_upd' = "other" /\ p_res' = NoPRes /\ p_calls' = 0
    /\ UNCHANGED <<mathVars, evalVars, newVars, lexVars>>

ParseNext == ParseTokens \/ UpdateTokens

SpecParse == ParseInit /\ [][ParseNext]_vars

(***************************************************************************)
(* SpecMath: one operation of the value layer applied to operands drawn    *)
(* from a bounded set of values.                                           *)
(***************************************************************************)
MaxArrLen == 2
MaxVarArgs == 3

FloatInputs == {F(-1), F(0), F(2)}

ValueInputs ==
    {NumberV(f) : f \in FloatInputs}
        \cup {ArrayV(a) : a \in SeqsUpTo(FloatInputs, MaxArrLen)}
        \cup {UniqueV}

MathInit ==
    /\ m_lhs \in ValueInputs
    /\ m_rhs \in ValueInputs
    /\ m_op = ""
    /\ m_res = NoRes
    /\ m_args = << >>
    /\ ParseIdle
    /\ EvalIdle
    /\ NewIdle
    /\ LexIdle

\* m_lhs <op> m_rhs, as Evaluand::eval dispatches a binary arithmetic operator
MathBinary ==
    \E op \in ArOps :
        /\ m_op = ""
        /\ m_op' = op
        /\ m_res' = eval_arop(op, m_lhs, m_rhs)
        /\ UNCHANGED <<m_lhs, m_rhs, m_args, parseVars, evalVars, newVars, lexVars>>

\* fun(m_lhs), as Evaluand::eval dispatches a function of maximum arity 1
MathSingle ==
    \E fun \in SingleArgFunctions :
        /\ m_op = ""
        /\ m_op' = fun
        /\ m_res' = eval_single(fun, m_lhs)
        /\ UNCHANGED <<m_lhs, m_rhs, m_args, parseVars, evalVars, newVars, lexVars>>

\* fun(args), as Evaluand::eval dispatches a variadic function; the arguments
\* are the operands, each any number of times
MathVariadic ==
    \E fun \in VariadicFunctions, args \in SeqsUpTo({m_lhs, m_rhs}, MaxVarArgs) :
        /\ m_op = ""
        /\ m_op' = fun
        /\ m_args' = args
        /\ m_res' = eval_variadic(fun, args)
        /\ UNCHANGED <<m_lhs, m_rhs, parseVars, evalVars, newVars, lexVars>>

MathNext == MathBinary \/ MathSingle \/ MathVariadic

SpecMath == MathInit /\ [][MathNext]_vars

(***************************************************************************)
(* SpecEval: an Evaluator built by from_ast from a token stream that       *)
(* parsed, and Evaluator::evaluate called on it with a map of inputs.      *)
(***************************************************************************)
MaxEvalOps == 2
MaxEvalCalls == 2

EvalBinaryLexemes == {LxPlus, LxMinus, LxPow, LxDot}

RECURSIVE EvalExprs(_)
EvalExprs(k) ==
    IF k = 0 THEN {<<a>> : a \in AtomLexemes \cup {LxPi}}
    ELSE UNION {{Wrap(l) \o <<o>> \o Wrap(r) :
                    l \in EvalExprs(i), o \in EvalBinaryLexemes, r \in EvalExprs(k - 1 - i)} :
                i \in 0..(k - 1)}

PrefixExprs == {<<p, a>> : p \in {LxPlus, LxMinus}, a \in AtomLexemes}

EvalStreams ==
    UNION {EvalExprs(k) : k \in 0..MaxEvalOps} \cup CallExprs \cup PrefixExprs

InputNames == {"a", "b"}

EvalValues == {NumberV(F(2)), ArrayV(<< F(-1), F(2) >>)}

EvalInit ==
    /\ \E lexs \in EvalStreams :
          \E r \in {parse_tokens(AST_new(StreamOf(lexs)))} :
              /\ r.tag = "Ok"
              /\ e_ast = r.ast
              /\ e_ev = from_ast(r.ast)
    /\ e_in = EmptyMap
    /\ e_res = NoRes
    /\ e_calls = 0
    /\ e_hist = << >>
    /\ e_debug \in BOOLEAN
    /\ MathIdle
    /\ ParseIdle
    /\ NewIdle
    /\ LexIdle

\* Evaluator::evaluate, called at most n times; a panic ends the program
EvaluateUpTo(n) ==
    /\ e_res.tag # "Panic"
    /\ e_calls < n
    /\ \E names \in SUBSET InputNames :
          \E inputs \in [names -> EvalValues] :
              \E r \in {evaluate(e_ev, inputs, e_debug)} :
                  /\ e_ev' = r.self
                  /\ e_res' = r.res
                  /\ e_in' = inputs
                  /\ e_hist' = Append(e_hist, [inputs |-> inputs, res |-> r.res])
    /\ e_calls' = e_calls + 1
    /\ UNCHANGED <<e_ast, e_debug, mathVars, parseVars, newVars, lexVars>>

Evaluate == EvaluateUpTo(MaxEvalCalls)

EvalNext == Evaluate

SpecEval == EvalInit /\ [][EvalNext]_vars

(***************************************************************************)
(* SpecRepeat: Evaluator::evaluate called several times on one Evaluator.  *)
(***************************************************************************)
MaxRepeatCalls == 3

RepeatStreams ==
    EvalExprs(0) \cup EvalExprs(1) \cup CallExprs \cup PrefixExprs
        \cup { << LxLP, LxA, LxPlus, LxOne, LxRP, LxPow, LxA >>,
               << LxMax, LxLP, LxA, LxPlus, LxOne, LxComma, LxOne, LxRP >>,
               << LxSin, LxLP, LxOne, LxMinus, LxA, LxRP >> }

RepeatInit ==
    /\ \E lexs \in RepeatStreams :
          \E r \in {parse_tokens(AST_new(StreamOf(lexs)))} :
              /\ r.tag = "Ok"
              /\ e_ast = r.ast
              /\ e_ev = from_ast(r.ast)
    /\ e_in = EmptyMap
    /\ e_res = NoRes
    /\ e_calls = 0
    /\ e_hist = << >>
    /\ e_debug \in BOOLEAN
    /\ MathIdle
    /\ ParseIdle
    /\ NewIdle
    /\ LexIdle

EvaluateAgain == EvaluateUpTo(MaxRepeatCalls)

RepeatNext == EvaluateAgain

SpecRepeat == RepeatInit /\ [][RepeatNext]_vars

(***************************************************************************)
(* SpecNew: Evaluator::new called on an expression text and a list of      *)
(* input names.                                                            *)
(***************************************************************************)
MaxChars == 3

ExprChars == {"a", "b", "e", "1", ".", "-", "+", " ", "#", "$"}

\* longer texts, one for each kind of token and of lexer error
SampleExprs ==
    { << "s", "i", "n", "(", "a", ")" >>,
      << "S", "i", "n", "(", "a", ",", "1", ")" >>,
      << "m", "a", "x", "(", "a", ",", "1", ")" >>,
      << "l", "o", "g", "(", "a", ")" >>,
      << "r", "a", "n", "g", "e", "(", "a", ")" >>,
      << "(", "a", "+", "1", ")", "*", "*", "2" >>,
      << "a", "[", "1", ":", "2", "]" >>,
      << "a", "[", "1" >>,
      << "a", ".", "x", ".", "y" >>,
      << "1", "_", "0", "0", "0" >>,
      << "_", "a", "+", "a" >>,
      << "1", "e", "5", "-", "3" >>,
      << "1", "e", "+", "5" >>,
      << "A", "+", "a" >>,
      << "a", "!", "a" >>,
      << "a", "=", "=", "1" >>,
      << "a", "~", "1" >>,
      << "a", "?", "1", "#" >>,
      << "π", "*", "a" >>,
      << "a", "+", "π" >>,
      << "a", "^", "2" >>,
      << "a", "/", "(", "1", ")" >> }

NewExprs == SeqsUpTo(ExprChars, MaxChars) \cup SampleExprs

VarLists == { << "a" >>, << "a", "b" >>, << "a", "sin" >> }

NewInit ==
    /\ n_expr \in NewExprs
    /\ n_vars \in VarLists
    /\ n_lex = NoLex
    /\ n_res = NoNew
    /\ MathIdle
    /\ ParseIdle
    /\ EvalIdle
    /\ LexIdle

\* Evaluator::new(n_expr, n_vars)
New ==
    /\ n_res = NoNew
    /\ \E u \in {update(TokenStream_new, n_expr, n_vars)} :
          n_lex' = [tag |-> u.tag, err |-> u.err]
    /\ n_res' = Evaluator_new(n_expr, n_vars)
    /\ UNCHANGED <<n_expr, n_vars, mathVars, parseVars, evalVars, lexVars>>

NewNext == New

SpecNew == NewInit /\ [][NewNext]_vars

(***************************************************************************)
(* SpecLex: TokenStream::update called on a new TokenStream with an        *)
(* expression text and a list of input names.                              *)
(***************************************************************************)
MaxLexChars == 4

LexChars == {"a", "b", "e", "1", ".", "-", "_", "=", " "}

\* the texts of the lexer's tests and longer texts of numbers and fields
LexSamples ==
    { << "y", "*", "(", "x", " ", "+", " ", "1", "2", ".", "3", "4", ".", "5", ")" >>,
      << " ", " ", " ", "1", "2", ".", "3", "4", "e", "-", "x" >>,
      << "1", "_", "0", "0", "0", "_", "0", "0", "0" >>,
      << "1", "0", "_", "0", "+", "x" >>,
      << "x", "+", "1", ".", "2", "E", "+", "2" >>,
      << "1", "e", "5", "-", "3" >>,
      << "x", " ", "-", " ", "1", "2" >>,
      << "x", "-", "1", "2", "-", "y" >>,
      << "x", ".", "y", ".", "z", " ", "*", " ", "y" >>,
      << "z", ".", "x" >>,
      << "x", " ", ".", " ", "z", "+", "z" >>,
      << "s", "i", "n", "(", "x", ")", "-", "=", "1" >>,
      << "x", "#", "1" >>,
      << "M", "a", "x", "(", "x", ")" >>,
      << "P", "I", "*", "x" >>,
      << "x", "+", "E" >>,
      << "s", "u", "m", "(", "x", ")" >>,
      << "m", "a", "x", "(", "x", ",", " ", "1", "2", ")", " ", "-", " ", "y" >>,
      << "s", "q", "r", "t", "2", "*", "s", "q", "r", "t", "3" >>,
      << "l", "o", "g", "(", "x", ")", "+", "l", "o", "g", "2", "(", "x", ")",
         "+", "l", "o", "g", "1", "0", "(", "x", ")" >> }

LexExprs == SeqsUpTo(LexChars, MaxLexChars) \cup LexSamples

LexVarLists == { << "a" >>, << "a", "b" >>, << "x" >>, << "x", "y" >> }

\* the words parse_function and parse_const recognise
BuiltinNames ==
    { "min", "max", "avg", "mean", "std", "sum", "abs", "sin", "cos", "tan",
      "cotan", "exp", "log", "log2", "log10", "sqrt", "pi", "π", "e", "sqrt2",
      "sqrt3" }

\* built-in words written with capitals
CapitalNames == { "Max", "PI", "E" }

\* lists of input names that hold a built-in or forbidden word
WordVarLists ==
    UNION {{ << w >>, << "x", w >>, << w, "y" >> } :
              w \in BuiltinNames \cup Range(FORBIDDEN_IDS) \cup CapitalNames}

LexInit ==
    /\ \/ l_expr \in LexExprs /\ l_vars \in LexVarLists
       \/ l_expr \in LexSamples /\ l_vars \in WordVarLists
    /\ l_ts = TokenStream_new
    /\ l_res = NoLex
    /\ MathIdle
    /\ ParseIdle
    /\ EvalIdle
    /\ NewIdle

\* l_ts.update(l_expr, l_vars)
Update ==
    /\ \E u \in {update(l_ts, l_expr, l_vars)} :
          /\ l_ts' = u.ts
          /\ l_res' = [tag |-> u.tag, err |-> u.err]
    /\ UNCHANGED <<l_expr, l_vars, mathVars, parseVars, evalVars, newVars>>

LexNext == Update

SpecLex == LexInit /\ [][LexNext]_vars

(***************************************************************************)
(* Claims about the parser, checked under SpecParse.                       *)
(***************************************************************************)
\* The conventional reading of an infix expression, computed without binding
\* powers: split at the rightmost operator of the loosest level outside all
\* parentheses; strip a pair of parentheses that encloses everything.
Level(t) ==
    CASE t.kind = "ArOp" /\ t.name \in {"Plus", "Minus"} -> 1
      [] t.kind = "ArOp" /\ t.name \in {"Mul", "Div"} -> 2
      [] t.kind = "ArOp" /\ t.name = "Pow" -> 3
      [] t.kind = "Dot" -> 4
      [] OTHER -> 0

RefFail == [ok |-> FALSE, tree |-> NoBranch]

RECURSIVE RefTree(_)
RefTree(toks) ==
    LET n == Len(toks)
        ops == {i \in 1..n : Level(toks[i].token) > 0 /\ ParenCount(toks, i) = 0}
    IN  IF n = 0 THEN RefFail
        ELSE IF n = 1
        THEN (IF is_atom(toks[1].token) THEN [ok |-> TRUE, tree |-> Atom(toks[1])]
              ELSE RefFail)
        ELSE IF ops # {}
        THEN LET loosest == CHOOSE l \in 1..4 :
                                /\ \E i \in ops : Level(toks[i].token) = l
                                /\ \A i \in ops : Level(toks[i].token) >= l
                 at == CHOOSE i \in ops :
                          /\ Level(toks[i].token) = loosest
                          /\ \A j \in ops : Level(toks[j].token) = loosest => j <= i
                 l == RefTree(SubSeq(toks, 1, at - 1))
                 r == RefTree(SubSeq(toks, at + 1, n))
             IN  IF l.ok /\ r.ok
                 THEN [ok |-> TRUE, tree |-> Expression(toks[at], << l.tree, r.tree >>)]
                 ELSE RefFail
        ELSE IF toks[1].token = LP /\ toks[n].token = RP
        THEN RefTree(SubSeq(toks, 2, n - 1))
        ELSE RefFail

\* the stream holds only atoms, + - * / ** and parentheses
ArithTokens(toks) ==
    \A i \in 1..Len(toks) :
        \/ is_atom(toks[i].token)
        \/ toks[i].token.kind = "ArOp" /\ toks[i].token.name \in ArOps
        \/ toks[i].token \in {LP, RP}

\* the stream holds only atoms, + - * / **, `.` and parentheses
FieldTokens(toks) ==
    \A i \in 1..Len(toks) :
        \/ is_atom(toks[i].token)
        \/ toks[i].token.kind = "ArOp" /\ toks[i].token.name \in ArOps
        \/ toks[i].token \in {LP, RP, Dot}

FirstParseDone == p_calls = 1

\* C2: for a token sequence of atoms joined by the binary operators
\* + - * / ** (with parentheses), parse_tokens returns Ok and stores the tree
\* of the conventional reading: ** tighter than * /, these tighter than + -,
\* equal levels grouping left to right, parentheses overriding.
C2_ArithmeticPrecedence ==
    (FirstParseDone /\ ArithTokens(p_ast.ts.tokens) /\ RefTree(p_ast.ts.tokens).ok)
        => /\ p_res.tag = "Ok"
           /\ p_ast.has_tree
           /\ p_ast.tree = RefTree(p_ast.ts.tokens).tree

\* `x + y * z` has been parsed to (+: x, (*: y, z))
C2_Witness ==
    /\ FirstParseDone
    /\ Len(p_ast.ts.tokens) = 5
    /\ ArithTokens(p_ast.ts.tokens)
    /\ p_ast.ts.tokens[2].token = ArOpT("Plus")
    /\ p_ast.ts.tokens[4].token = ArOpT("Mul")
    /\ p_res.tag = "Ok"
    /\ p_ast.tree.tc.token = ArOpT("Plus")
    /\ p_ast.tree.args[2].tc.token = ArOpT("Mul")

\* C3: AST::parse_tokens ends with Ok and a tree stored, or with Err; it
\* never aborts, whatever the token stream.
C3_ParseNeverAborts ==
    /\ p_res.tag \in {"None", "Ok", "Err"}
    /\ p_res.tag = "Ok" => p_ast.has_tree

RECURSIVE CallsWithinArity(_)
CallsWithinArity(b) ==
    /\ (~b.atom /\ b.tc.token.kind = "Func")
          => (Len(b.args) >= 1 /\ Len(b.args) <= b.tc.token.arity)
    /\ \A i \in 1..Len(b.args) : CallsWithinArity(b.args[i])

\* the number of arguments of the stream  f ( a1 , ... , an )
CallArgs(toks) == (Len(toks) - 2) \div 2

IsCall(toks) ==
    /\ Len(toks) >= 4
    /\ toks[1].token.kind = "Func"
    /\ toks[2].token = LP
    /\ toks[Len(toks)].token = RP
    /\ \A i \in 3..(Len(toks) - 1) :
          IF i % 2 = 1 THEN is_atom(toks[i].token) ELSE toks[i].token = Comma

\* C5: every function call in a tree the parser produces has between 1 and
\* the function token's maximum number of arguments, and a call with more
\* arguments than that is rejected with TooManyArguments.
C5_CallArity ==
    FirstParseDone =>
        /\ (p_res.tag = "Ok" => CallsWithinArity(p_ast.tree))
        /\ (IsCall(p_ast.ts.tokens)
              /\ CallArgs(p_ast.ts.tokens) > p_ast.ts.tokens[1].token.arity)
                => (p_res.tag = "Err" /\ p_res.err.kind = "TooManyArguments")

RECURSIVE FieldNamesAreVars(_)
FieldNamesAreVars(b) ==
    /\ (~b.atom /\ b.tc.token = Dot)
          => (Len(b.args) = 2 /\ b.args[2].atom /\ b.args[2].tc.token.kind = "Var")
    /\ \A i \in 1..Len(b.args) : FieldNamesAreVars(b.args[i])

\* C6: `.` groups left to right and binds tighter than every arithmetic
\* operator, so the tree is that of the conventional reading with `.` as the
\* tightest level, and the second child of every `.` is a Var atom.
C6_FieldAccess ==
    (FirstParseDone /\ FieldTokens(p_ast.ts.tokens) /\ RefTree(p_ast.ts.tokens).ok
        /\ \A i \in 1..Len(p_ast.ts.tokens) :
              p_ast.ts.tokens[i].token = Dot =>
                  (i < Len(p_ast.ts.tokens) /\ p_ast.ts.tokens[i + 1].token.kind = "Var"))
        => /\ p_res.tag = "Ok"
           /\ p_ast.tree = RefTree(p_ast.ts.tokens).tree
           /\ FieldNamesAreVars(p_ast.tree)

\* the parentheses of the stream balance
Balanced(toks) ==
    /\ \A i \in 1..Len(toks) : ParenCount(toks, i) >= 0
    /\ ParenCount(toks, Len(toks)) = 0

\* a compound assignment, a logical operator or a relational operator
NotForThisLayer(t) ==
    \/ t = AssignOpT("PlusEq") \/ t = AssignOpT("MinusEq")
    \/ t = AssignOpT("TimesEq") \/ t = AssignOpT("DivideEq")
    \/ t.kind \in {"LogicOp", "RelOp"}

\* C15: for a stream with balanced parentheses that holds a compound
\* assignment, a logical operator or a relational operator, parse_tokens
\* returns InvalidOperation with the offset of the first such token, and no
\* tree is stored.
C15_DisallowedOperators ==
    LET toks == p_ast.ts.tokens
        bad == {i \in 1..Len(toks) : NotForThisLayer(toks[i].token)}
    IN  (p_calls >= 1 /\ Balanced(toks) /\ bad # {})
            => /\ p_res.tag = "Err"
               /\ p_res.err.kind = "InvalidOperation"
               /\ \E i \in bad : /\ \A j \in bad : i <= j
                                  /\ p_res.err.n = toks[i].at
               /\ ~p_ast.has_tree

\* `a == 1 += a` has been refused at the offset of `==`
C15_Witness ==
    /\ p_calls >= 1
    /\ Len(p_ast.ts.tokens) = 5
    /\ p_ast.ts.tokens[2].token = RelOpT("Eq")
    /\ p_ast.ts.tokens[4].token = AssignOpT("PlusEq")
    /\ p_res.tag = "Err"
    /\ p_res.err.kind = "InvalidOperation"
    /\ p_res.err.n = p_ast.ts.tokens[2].at

\* C23: when the first parse_tokens call on a stream returns Ok the parser
\* has consumed the whole stream: the next token is Eof, so no token that
\* trails a complete expression is dropped.
C23_WholeStreamConsumed ==
    (FirstParseDone /\ p_res.tag = "Ok")
        => peek(p_ast.ts).token = Eof

\* the stream is a prefix + or -, an atom, an infix + or -, an atom
PrefixThenInfix(toks) ==
    /\ Len(toks) = 4
    /\ toks[1].token \in {ArOpT("Plus"), ArOpT("Minus")}
    /\ is_atom(toks[2].token)
    /\ toks[3].token \in {ArOpT("Plus"), ArOpT("Minus")}
    /\ is_atom(toks[4].token)

\* C24: a prefix - or + applies only to the operand right after it when an
\* infix + or - follows: `-a + b` parses as (+: (-: a), b) and `-a - b` as
\* (-: (-: a), b).
C24_PrefixBindsOperand ==
    (FirstParseDone /\ PrefixThenInfix(p_ast.ts.tokens))
        => /\ p_res.tag = "Ok"
           /\ p_ast.tree =
                 Expression(p_ast.ts.tokens[3],
                            << Expression(p_ast.ts.tokens[1],
                                          << Atom(p_ast.ts.tokens[2]) >>),
                               Atom(p_ast.ts.tokens[4]) >>)

\* C29: a second parse_tokens call on the same AST, with no update_tokens
\* in between or after an update_tokens with a stream of the same tokens,
\* returns Ok with the tree of the first call when that call returned Ok.
C29_ParseRepeatable ==
    p_calls = 2 =>
        \A first \in {parse_tokens(AST_new(Retokenized(p_ast.ts)))} :
            first.tag = "Ok"
                => /\ p_res.tag = "Ok"
                   /\ p_ast.has_tree
                   /\ p_ast.tree = first.ast.tree

(***************************************************************************)
(* Claims about the arithmetic of values, checked under SpecMath.          *)
(***************************************************************************)
\* the float result of one arithmetic operator
FloatOp(op, x, y) ==
    CASE op = "Plus" -> FAdd(x, y)
      [] op = "Minus" -> FSub(x, y)
      [] op = "Mul" -> FMul(x, y)
      [] op = "Div" -> FDiv(x, y)
      [] op = "Pow" -> FPow(x, y)

\* the mathematical function a single-argument function token names
MathFn(fun, x) ==
    CASE fun = "Sin" -> App1("sin", x)
      [] fun = "Cos" -> App1("cos", x)
      [] fun = "Tan" -> App1("tan", x)
      [] fun = "Cot" -> FDiv(F(1), App1("tan", x))
      [] fun = "Exp" -> App1("exp", x)
      [] fun = "Log" -> App1("ln", x)
      [] fun = "Log2" -> App1("log2", x)
      [] fun = "Log10" -> App1("log10", x)
      [] fun = "Sqrt" -> App1("sqrt", x)
      [] fun = "Abs" -> IF FLess(x, F(0)) THEN FNeg(x) ELSE x

\* C8: a binary arithmetic operation between two Arrays of different shape
\* returns the error InvalidBinaryOperation, never an array.
C8_ShapeMismatchRejected ==
    (/\ m_op \in ArOps
     /\ category(m_lhs) = "Array"
     /\ category(m_rhs) = "Array"
     /\ shape(m_lhs) # shape(m_rhs))
        => /\ m_res.tag = "Err"
           /\ m_res.err.kind = "InvalidBinaryOperation"

\* C9: with a Number n on the left and an Array a on the right, every
\* arithmetic operator returns the Array of  n <op> a[i]  (the scalar on the
\* left), which for + and * equals  a <op> n.
C9_ScalarOnTheLeft ==
    (/\ m_op \in ArOps
     /\ category(m_lhs) = "Number"
     /\ category(m_rhs) = "Array")
        => /\ m_res = Ok(ArrayV([i \in 1..Len(m_rhs.arr) |->
                                    FloatOp(m_op, m_lhs.num, m_rhs.arr[i])]))
           /\ m_op \in {"Plus", "Mul"} => m_res = eval_arop(m_op, m_rhs, m_lhs)

\* C10: a single-argument function applied to an Array returns the Array of
\* the function's values, applied to a Number the function's value, and
\* applied to a value of any other category the error InvalidUnaryOperation.
C10_SingleArgumentFunctions ==
    m_op \in SingleArgFunctions =>
        CASE category(m_lhs) = "Array" ->
                m_res = Ok(ArrayV([i \in 1..Len(m_lhs.arr) |-> MathFn(m_op, m_lhs.arr[i])]))
          [] category(m_lhs) = "Number" ->
                m_res = Ok(NumberV(MathFn(m_op, m_lhs.num)))
          [] OTHER ->
                /\ m_res.tag = "Err"
                /\ m_res.err.kind = "InvalidUnaryOperation"

\* the numbers of an argument list of Numbers
ArgNumbers(args) == {args[i].num : i \in 1..Len(args)}

Smallest(S) == CHOOSE x \in S : \A y \in S : ~FLess(y, x)

Largest(S) == CHOOSE x \in S : \A y \in S : ~FLess(x, y)

RECURSIVE Total(_)
Total(args) ==
    IF Len(args) = 0 THEN F(0)
    ELSE FAdd(Total(SubSeq(args, 1, Len(args) - 1)), args[Len(args)].num)

SeveralNumbers(args) ==
    Len(args) >= 2 /\ \A i \in 1..Len(args) : category(args[i]) = "Number"

\* C11: with two or more arguments, all Numbers, min returns the smallest
\* argument, max the largest, sum their total and range the largest minus the
\* smallest.
C11_ReductionsOfNumbers ==
    (m_op \in {"Min", "Max", "Sum", "Range"} /\ SeveralNumbers(m_args))
        => m_res = Ok(NumberV(
              CASE m_op = "Min" -> Smallest(ArgNumbers(m_args))
                [] m_op = "Max" -> Largest(ArgNumbers(m_args))
                [] m_op = "Sum" -> Total(m_args)
                [] m_op = "Range" -> FSub(Largest(ArgNumbers(m_args)),
                                          Smallest(ArgNumbers(m_args)))))

\* the value's own method of the name of a reduction
OwnMethod(fun, v) ==
    CASE fun = "Min" -> min(v)
      [] fun = "Max" -> max(v)
      [] fun = "Avg" -> avg(v)
      [] fun = "Std" -> std(v)
      [] fun = "Sum" -> sum(v)
      [] fun = "Range" -> range(v)

\* C12: with exactly one argument, a reduction returns what the argument's
\* own method of the same name returns (the number for an Array, the value's
\* own error otherwise), and never aborts.
C12_SingleArgumentDelegates ==
    (m_op \in VariadicFunctions /\ Len(m_args) = 1)
        => /\ m_res.tag # "Panic"
           /\ m_res = OwnMethod(m_op, m_args[1])

\* C13: a reduction called with no argument, or with two or more arguments
\* of which one is not a Number, returns the error InvalidArguments.
C13_InvalidArguments ==
    (/\ m_op \in VariadicFunctions
     /\ \/ Len(m_args) = 0
        \/ Len(m_args) >= 2 /\ ~SeveralNumbers(m_args))
        => /\ m_res.tag = "Err"
           /\ m_res.err.kind = "InvalidArguments"

\* avg of a Number and an Array has been refused with InvalidArguments
C13_Witness ==
    /\ m_op = "Avg"
    /\ Len(m_args) = 2
    /\ category(m_args[1]) = "Number"
    /\ category(m_args[2]) = "Array"
    /\ m_res.tag = "Err"
    /\ m_res.err.kind = "InvalidArguments"

(***************************************************************************)
(* Claims about the evaluator, checked under SpecEval.                     *)
(***************************************************************************)
\* the input names a tree uses
RECURSIVE TreeVars(_)
TreeVars(b) ==
    IF b.atom
    THEN (IF b.tc.token.kind = "Var" THEN {b.tc.token.name} ELSE {})
    ELSE UNION {TreeVars(b.args[i]) : i \in 1..Len(b.args)}

\* negation of a value: of the number, or of every element of the array
Negated(v) ==
    CASE category(v) = "Number" -> Ok(NumberV(FNeg(v.num)))
      [] category(v) = "Array" -> Ok(ArrayV(SeqMap(FNeg, v.arr)))
      [] OTHER -> unimpl_unary(v, "-")

\* the tree is built of atoms, arithmetic operators and function calls only
RECURSIVE Computable(_)
Computable(b) ==
    /\ b.atom \/ b.tc.token.kind \in {"ArOp", "Func"}
    /\ b.tc.token.kind = "ArOp" => Len(b.args) \in {1, 2}
    /\ \A i \in 1..Len(b.args) : Computable(b.args[i])

\* The Value of a node, by structural recursion on the tree: an atom's value
\* is its number, its constant or its input; an operator's value is the
\* operation applied to the values of its children.
RECURSIVE ValueOf(_, _)
ValueOf(b, inputs) ==
    IF b.atom
    THEN CASE b.tc.token.kind = "Number" -> Ok(NumberV(b.tc.token.val))
           [] b.tc.token.kind = "Const" -> Ok(NumberV(Constant_value(b.tc.token.name)))
           [] OTHER -> Ok(inputs[b.tc.token.name])
    ELSE LET child == [i \in 1..Len(b.args) |-> ValueOf(b.args[i], inputs)]
             failed == {i \in 1..Len(b.args) : child[i].tag # "Ok"}
             val == [i \in 1..Len(b.args) |-> child[i].val]
         IN  IF failed # {} THEN child[CHOOSE i \in failed : \A j \in failed : j <= i]
             ELSE IF b.tc.token.kind = "ArOp" /\ Len(b.args) = 2
             THEN eval_arop(b.tc.token.name, val[1], val[2])
             ELSE IF b.tc.token.kind = "ArOp"
             THEN (IF b.tc.token.name = "Minus" THEN Negated(val[1]) ELSE Ok(val[1]))
             ELSE IF b.tc.token.arity = 1
             THEN eval_single(b.tc.token.name, val[1])
             ELSE eval_variadic(b.tc.token.name, val)

AllInputsGiven == e_calls >= 1 /\ DOMAIN e_in = TreeVars(e_ast.tree)

\* C1: for an expression that compiled, evaluate called with a value for
\* every input the expression uses returns the Value of the root of the tree,
\* also when the expression is a single number, constant or input name.
C1_EvaluateReturnsRootValue ==
    (AllInputsGiven /\ Computable(e_ast.tree))
        => e_res = ValueOf(e_ast.tree, e_in)

\* C7: evaluating a prefix - or + whose child is a Number or an Array returns
\* the negation, respectively the value itself, of the child.
C7_PrefixOperators ==
    (/\ AllInputsGiven
     /\ ~e_ast.tree.atom
     /\ e_ast.tree.tc.token.kind = "ArOp"
     /\ Len(e_ast.tree.args) = 1
     /\ e_ast.tree.args[1].atom)
        => e_res = ValueOf(e_ast.tree, e_in)

\* C16: two evaluate calls on the same Evaluator with the same inputs map,
\* one that binds every input the expression uses, return equal values,
\* whatever calls were made in between.
C16_Deterministic ==
    \A i, j \in 1..Len(e_hist) :
        (/\ i < j
         /\ e_hist[i].inputs = e_hist[j].inputs
         /\ TreeVars(e_ast.tree) \subseteq DOMAIN e_hist[i].inputs)
            => e_hist[j].res = e_hist[i].res

\* the first and the third call had the same inputs and returned a value,
\* the call in between had other inputs and returned another value
C16_Witness ==
    /\ Len(e_hist) = 3
    /\ e_hist[1].inputs = e_hist[3].inputs
    /\ e_hist[2].inputs # e_hist[1].inputs
    /\ TreeVars(e_ast.tree) = {"a"}
    /\ e_hist[1].res.tag = "Ok"
    /\ e_hist[2].res.tag = "Ok"
    /\ e_hist[2].res # e_hist[1].res
    /\ e_hist[3].res.tag = "Ok"

\* the values table evaluate works on once the inputs are inserted: the
\* table the Evaluator held, with each given input at the id of its alias
Inserted(self, inputs) ==
    [id \in (DOMAIN self.values) \cup {self.aliases[v] : v \in DOMAIN inputs} |->
        IF \E v \in DOMAIN inputs : self.aliases[v] = id
        THEN inputs[CHOOSE v \in DOMAIN inputs : self.aliases[v] = id]
        ELSE self.values[id]]

\* every op executed, in the given order, finds all its child ids in the
\* values table; an op is executed when every op before it returned Ok
RECURSIVE ChildrenPresent(_, _, _, _), PresentThen(_, _, _, _, _)
ChildrenPresent(order, expressions, values, debug) ==
    \/ order = << >>
    \/ /\ \A i \in 1..Len(expressions[order[1]].args) :
              expressions[order[1]].args[i] \in DOMAIN values
       /\ PresentThen(Evaluand_eval(expressions[order[1]], values, debug),
                      order, expressions, values, debug)

PresentThen(result, order, expressions, values, debug) ==
    result.tag = "Ok"
        => ChildrenPresent(Tail(order), expressions,
                           Put(values, order[1], result.val), debug)

\* C21: when the first evaluate call on a compiled expression gives a value
\* for every input name the expression uses, every op executed in descending
\* id order finds each of its child ids in the values table, also when an
\* input name occurs more than once.
C21_ChildrenPresent ==
    (e_calls = 1 /\ AllInputsGiven /\ Computable(e_ast.tree))
        => ChildrenPresent(SortDesc(DOMAIN from_ast(e_ast).expressions),
                           from_ast(e_ast).expressions,
                           Inserted(from_ast(e_ast), e_in), e_debug)

\* the node flatten_tree numbered 0 is the root of the tree
RootIsZero(tree, ev) ==
    IF tree.atom
    THEN IF tree.tc.token.kind = "Var"
         THEN tree.tc.token.name \in DOMAIN ev.aliases
                 /\ ev.aliases[tree.tc.token.name] = 0
         ELSE 0 \in DOMAIN ev.values
    ELSE 0 \in DOMAIN ev.expressions /\ ev.expressions[0].op = tree.tc

\* C22: in the program flattened from the tree of a well-formed expression
\* the root has id 0 and every child id listed for an op is greater than the
\* op's own id, also when an input name occurs in several subtrees.
C22_ChildIdsGreater ==
    Computable(e_ast.tree)
        => /\ RootIsZero(e_ast.tree, e_ev)
           /\ \A p \in DOMAIN e_ev.expressions :
                 \A i \in 1..Len(e_ev.expressions[p].args) :
                     e_ev.expressions[p].args[i] > p

\* the inputs of the first call name every input the expression uses and at
\* least one more name of the declared variable list
ExtraDeclaredInput ==
    /\ e_calls = 1
    /\ TreeVars(e_ast.tree) \subseteq DOMAIN e_in
    /\ DOMAIN e_in # TreeVars(e_ast.tree)
    /\ DOMAIN e_in \subseteq Range(e_ast.ts.var)

\* C25: evaluate does not abort when the inputs map holds a name of the
\* declared variable list that does not occur in the expression: the entry
\* is ignored and the root value is returned.
C25_ExtraInputIgnored ==
    (ExtraDeclaredInput /\ Computable(e_ast.tree))
        => /\ e_res.tag # "Panic"
           /\ e_res = ValueOf(e_ast.tree, e_in)

\* C26: what an evaluate call returns depends only on the compiled
\* expression and the inputs map of that call: every call returns what the
\* same call returns on an Evaluator newly compiled from the same expression,
\* whatever inputs the earlier calls supplied.
C26_HistoryIndependent ==
    \A j \in 1..Len(e_hist) :
        e_hist[j].res = evaluate(from_ast(e_ast), e_hist[j].inputs, e_debug).res

(***************************************************************************)
(* Claims about Evaluator::new, checked under SpecNew.                     *)
(***************************************************************************)
\* C4: when the lexer rejects the expression, Evaluator::new fails with the
\* lexer's error, unchanged.
C4_LexerErrorReturned ==
    (n_res # NoNew /\ n_lex.tag = "Err")
        => /\ n_res.tag = "Err"
           /\ n_res.error_type = "TokenizerError"
           /\ n_res.err = n_lex.err

(***************************************************************************)
(* Claims about the lexer, checked under SpecLex.                          *)
(***************************************************************************)
Updated == l_res.tag # "None"

\* the reserved identifiers
ReservedNames ==
    { "min", "max", "avg", "mean", "std", "sum", "sin", "cos", "tan", "cotan",
      "abs", "exp", "log", "log2", "log10", "sqrt", "pi", "e", "sqrt2", "sqrt3" }

\* C14: whenever the list of input names holds a reserved identifier,
\* tokenization fails with the invalid-variable-name error, whatever the
\* expression.
C14_ReservedNamesRejected ==
    (Updated /\ \E i \in 1..Len(l_vars) : l_vars[i] \in ReservedNames)
        => /\ l_res.tag = "Err"
           /\ l_res.err.kind = "InvalidVariableIdentifier"

\* an expression of lower-case words, `_`, `.` and blanks
WordChar(c) == c \in Range(LOWER) \cup {"_"}

PlainText(expr) == \A i \in 1..Len(expr) : WordChar(expr[i]) \/ expr[i] \in {".", " "}

\* where the identifiers of a plain text start, and the identifier at s
WordStarts(expr) ==
    {s \in 1..Len(expr) : WordChar(expr[s]) /\ (s = 1 \/ ~WordChar(expr[s - 1]))}

WordAt(expr, s) ==
    LET ends == {e \in s..Len(expr) : \A k \in s..e : WordChar(expr[k])}
    IN  SubSeq(expr, s, CHOOSE e \in ends : \A f \in ends : f <= e)

\* the token before the identifier at s is `.`
AfterDot(expr, s) ==
    \E j \in 1..(s - 1) : expr[j] = "." /\ \A k \in (j + 1)..(s - 1) : expr[k] = " "

\* neither a built-in function, a built-in constant nor a declared input
UnknownWord(expr, s, variables) ==
    /\ Str(WordAt(expr, s)) \notin BuiltinNames
    /\ Str(WordAt(expr, s)) \notin Range(variables)

ProperInputs(variables) ==
    \A i \in 1..Len(variables) : variables[i] \notin BuiltinNames \cup ReservedNames

\* C17: an identifier that is neither built in nor a declared input makes
\* tokenization fail with UndefinedVariable carrying its start offset and its
\* name, unless the token before it is `.`: then a Var token of that name is
\* emitted.
C17_UndefinedVariable ==
    (Updated /\ PlainText(l_expr) /\ ProperInputs(l_vars)) =>
        LET unknown == {s \in WordStarts(l_expr) : UnknownWord(l_expr, s, l_vars)}
            bad == {s \in unknown : ~AfterDot(l_expr, s)}
        IN  IF bad # {}
            THEN \E s \in bad :
                    /\ \A t \in bad : s <= t
                    /\ l_res.tag = "Err"
                    /\ l_res.err = UndefinedVariable(s - 1, Str(WordAt(l_expr, s)))
            ELSE /\ l_res.tag = "Ok"
                 /\ \A s \in unknown :
                       \E k \in 1..Len(l_ts.tokens) :
                           l_ts.tokens[k] =
                               TokenContext(VarT(Str(WordAt(l_expr, s))), s - 1,
                                            Len(WordAt(l_expr, s)))

\* with the inputs [a], `a.b` has been tokenized to Var a, `.`, Var b
C17_Witness ==
    /\ l_expr = << "a", ".", "b" >>
    /\ l_vars = << "a" >>
    /\ l_res.tag = "Ok"
    /\ Len(l_ts.tokens) = 3
    /\ l_ts.tokens[3] = TokenContext(VarT("b"), 2, 1)

Digit(c) == c \in {"0", "1", "2", "3", "4", "5", "6", "7", "8", "9"}

\* the char at offset at (counted from 0), a blank past the end
CharAt(expr, at) == IF at < Len(expr) THEN expr[at + 1] ELSE " "

\* the text is `-` and then digits only
SignedDigits(expr) ==
    Len(expr) >= 2 /\ expr[1] = "-" /\ \A i \in 2..Len(expr) : Digit(expr[i])

RECURSIVE UnderscoredDigits(_)
UnderscoredDigits(expr) ==
    /\ Len(expr) >= 1
    /\ Digit(expr[1])
    /\ \/ Len(expr) = 1
       \/ Digit(expr[2]) /\ UnderscoredDigits(Tail(expr))
       \/ Len(expr) >= 3 /\ expr[2] = "_" /\ UnderscoredDigits(SubSeq(expr, 3, Len(expr)))

\* the number written by the digits of the text, its underscores skipped
RECURSIVE PlainValue(_)
PlainValue(expr) ==
    IF expr = <<>> THEN 0
    ELSE LET c == expr[Len(expr)]
             front == SubSeq(expr, 1, Len(expr) - 1)
         IN  IF c = "_" THEN PlainValue(front)
             ELSE 10 * PlainValue(front)
                    + (CHOOSE d \in 0..9 : DIGITS[d + 1] = c)

\* C19: a numeric literal with underscores between its digits is one Number
\* token whose length covers the underscores and whose value is that of the
\* digits without the underscores.
C19_UnderscoresInNumbers ==
    (Updated /\ UnderscoredDigits(l_expr) /\ ProperInputs(l_vars))
        => /\ l_res.tag = "Ok"
           /\ l_ts.tokens = << TokenContext(NumberT(F(PlainValue(l_expr))), 0, Len(l_expr)) >>

\* where the numeric literal of the text starts: after a prefix of blanks,
\* `(`, `+`, `*` and declared one-letter inputs, each followed by a char
\* that is not part of an identifier
LiteralPrefix(expr, n, variables) ==
    /\ n < Len(expr)
    /\ Digit(expr[n + 1])
    /\ \A i \in 1..n :
          \/ expr[i] \in {" ", "(", "+", "*"}
          \/ /\ expr[i] \in Range(variables)
             /\ i < n
             /\ expr[i + 1] \in {" ", "(", "+", "*"}

\* The literal that starts at index i of the text holds a second `.`
\* (dots = 1 when a `.` is met), or an exponent marker that is not followed
\* by a digit or by `-` and a digit.
RECURSIVE IllFormedLiteral(_, _, _, _)
IllFormedLiteral(expr, i, dots, exp) ==
    IF i > Len(expr) THEN FALSE
    ELSE LET c == expr[i]
             d == CharAt(expr, i)
             dd == CharAt(expr, i + 1)
         IN  CASE Digit(c) -> IllFormedLiteral(expr, i + 1, dots, exp)
               [] c = "." -> dots = 1 \/ IllFormedLiteral(expr, i + 1, 1, exp)
               [] c \in {"e", "E"} /\ exp = 0 ->
                     IF Digit(d) THEN IllFormedLiteral(expr, i + 1, dots, 1)
                     ELSE IF d = "-" /\ Digit(dd) THEN IllFormedLiteral(expr, i + 2, dots, 1)
                     ELSE TRUE
               [] OTHER -> FALSE

IdentStarts(expr) ==
    {s \in 1..Len(expr) :
        /\ is_alphabetic(expr[s]) \/ expr[s] = "_"
        /\ s = 1 \/ ~is_ident_char(expr[s - 1])}

IdentAt(expr, s) ==
    LET ends == {e \in s..Len(expr) : \A k \in s..e : is_ident_char(expr[k])}
    IN  SubSeq(expr, s, CHOOSE e \in ends : \A f \in ends : f <= e)

\* C27: every input name that passes the validation of reserved names is
\* tokenized as Var(name) wherever it stands as a whole identifier in the
\* expression, never as a built-in function or constant, also when it differs
\* from a built-in in letter case only.
C27_InputNamesAreVars ==
    (Updated /\ l_res.tag = "Ok" /\ check_input_variables(l_vars) = NoTErr) =>
        \A s \in IdentStarts(l_expr) :
            Str(IdentAt(l_expr, s)) \in Range(l_vars) =>
                \E i \in 1..Len(l_ts.tokens) :
                    /\ l_ts.tokens[i].at = s - 1
                    /\ l_ts.tokens[i].token = VarT(Str(IdentAt(l_expr, s)))

\* the variant of Constant or Function that carries the name of the word
OwnVariant(w) ==
    CASE w = "sqrt2" -> ConstT("Sqrt2")
      [] w = "sqrt3" -> ConstT("Sqrt3")
      [] w = "log" -> FuncT("Log", 1)
      [] w = "log2" -> FuncT("Log2", 1)
      [] w = "log10" -> FuncT("Log10", 1)
      [] OTHER -> Eof

\* the token emitted at the identifier that starts at s
TokenAt(ts, s) ==
    LET here == {i \in 1..Len(ts.tokens) : ts.tokens[i].at = s - 1}
    IN  IF here = {} THEN Eof ELSE ts.tokens[CHOOSE i \in here : TRUE].token

\* C28: each of the built-in names sqrt2, sqrt3, log, log2 and log10 lexes to
\* its own variant, so no two of them that stand in one expression yield the
\* same token.
C28_BuiltinsDistinct ==
    (Updated /\ l_res.tag = "Ok") =>
        LET named == {s \in IdentStarts(l_expr) :
                         /\ Str(IdentAt(l_expr, s)) \in
                               {"sqrt2", "sqrt3", "log", "log2", "log10"}
                         /\ Str(IdentAt(l_expr, s)) \notin Range(l_vars)}
        IN  /\ \A s \in named :
                  TokenAt(l_ts, s) = OwnVariant(Str(IdentAt(l_expr, s)))
            /\ \A s, t \in named :
                  IdentAt(l_expr, s) # IdentAt(l_expr, t)
                      => TokenAt(l_ts, s) # TokenAt(l_ts, t)

\* C30: when the expression tokenizes, the tokens are in source order with
\* strictly increasing offsets, every token has a length of 1 or more, and
\* every token ends inside the source.
C30_TokenOffsets ==
    (Updated /\ l_res.tag = "Ok") =>
        \A i \in 1..Len(l_ts.tokens) :
            /\ l_ts.tokens[i].len >= 1
            /\ l_ts.tokens[i].at + l_ts.tokens[i].len <= Len(l_expr)
            /\ i < Len(l_ts.tokens) => l_ts.tokens[i].at < l_ts.tokens[i + 1].at

\* a text of three or more tokens has been tokenized, one token longer than
\* one char, one token right after another and one after a blank
C30_Witness ==
    /\ Updated
    /\ l_res.tag = "Ok"
    /\ Len(l_ts.tokens) >= 3
    /\ \E i \in 1..Len(l_ts.tokens) : l_ts.tokens[i].len >= 2
    /\ \E i \in 1..(Len(l_ts.tokens) - 1) :
          l_ts.tokens[i + 1].at = l_ts.tokens[i].at + l_ts.tokens[i].len
    /\ \E i \in 1..(Len(l_ts.tokens) - 1) :
          l_ts.tokens[i + 1].at > l_ts.tokens[i].at + l_ts.tokens[i].len

====
